---------------------------- MODULE Spec2Model ----------------------------
(***************************************************************************)
(* Model of src/src/main.rs (extract_comment): the comment lexer           *)
(* extract_comments_from_lines, the preceding-block collector              *)
(* extract_inline_comments and the syntax locator                          *)
(* find_function_by_start_line.                                            *)
(*                                                                         *)
(* Text is a sequence of one-character strings.  The source indexes        *)
(* vectors from 0; the model keeps the source's 0-based pos and i and      *)
(* reads chars[pos] as At(chars, pos).                                     *)
(***************************************************************************)
EXTENDS Integers, Sequences, FiniteSets, TLC

VARIABLES
    pc,         \* where the running call stands
    call,       \* the function called from outside and its arguments
    ret,        \* the value the call returned
    lexFrame,   \* the locals of extract_comments_from_lines
    inlFrame,   \* the locals of extract_inline_comments
    locFrame,   \* the locals of find_function_by_start_line
    log,        \* what the calls made before this one returned
    run         \* the locals of main, the failure files, the result files and
                \* the crate directories on disk

vars == <<pc, call, ret, lexFrame, inlFrame, locFrame, log, run>>

-----------------------------------------------------------------------------
(* Bounds of the model *)

\* generic inputs: every text of at most MaxSize characters (line breaks
\* included) over Alphabet
MaxSize == 6

\* extract_inline_comments: every source of at most MaxSourceSize characters,
\* with start and end lines from 0 to MaxLineNo
MaxSourceSize == 5
MaxLineNo == 3

\* find_function_by_start_line: every syntax tree of at most MaxNodes nodes
\* on the lines 1 .. MaxLine
MaxNodes == 2
MaxLine == 2

\* repeated calls: at most MaxCalls calls, one after the other
MaxCalls == 3

\* extract_doc_comments: every node with at most MaxAttrs attributes
MaxAttrs == 3

\* main: runs over at most MaxRecords records, with target lines 0 .. MaxTarget
MaxRecords == 3
MaxTarget == 4

-----------------------------------------------------------------------------
(* Text helpers *)

NL == "\n"
TAB == "\t"

Alphabet == {"/", "*", "!", " ", "a"}

\* chars[pos] with the source's 0-based index
At(chars, p) == chars[p + 1]

\* chars[pos..] collected into a String
From(chars, p) == SubSeq(chars, p + 1, Len(chars))

\* char::is_whitespace, on the characters the model uses
IsWhitespace(c) == c \in {" ", TAB, NL}

RECURSIVE TrimStart(_)
TrimStart(s) ==
    IF s # <<>> /\ IsWhitespace(Head(s)) THEN TrimStart(Tail(s)) ELSE s

RECURSIVE TrimEnd(_)
TrimEnd(s) ==
    IF s # <<>> /\ IsWhitespace(s[Len(s)])
    THEN TrimEnd(SubSeq(s, 1, Len(s) - 1))
    ELSE s

\* str::trim
Trim(s) == TrimStart(TrimEnd(s))

\* str::lines: split at line breaks; a final line break opens no empty line
RECURSIVE SplitLines(_, _, _)
SplitLines(s, k, cur) ==
    IF k > Len(s) THEN (IF cur = <<>> THEN <<>> ELSE <<cur>>)
    ELSE IF s[k] = NL THEN <<cur>> \o SplitLines(s, k + 1, <<>>)
    ELSE SplitLines(s, k + 1, Append(cur, s[k]))

Lines(s) == SplitLines(s, 1, <<>>)

-----------------------------------------------------------------------------
(* extract_comments_from_lines (main.rs 161-256)                           *)
(* A frame holds the locals; each operator below is one branch of the body *)
(* of `while pos < chars.len()`, applied to the frame.                     *)

\* mutant of LexEntry: the scope stack of the call before is kept
LexEntryKeepsStack(lines) ==
    [lines |-> lines, i |-> 0, pos |-> 0,
     commentStack |-> IF "commentStack" \in DOMAIN lexFrame
                      THEN lexFrame.commentStack ELSE <<>>,
     current_block |-> <<>>, comments |-> <<>>]

\* the frame at function entry (main.rs 163-167 and 171-172)
LexEntry(lines) ==
    [lines |-> lines, i |-> 0, pos |-> 0, commentStack |-> <<>>,
     current_block |-> <<>>, comments |-> <<>>]

\* the characters of the line under the scan
Chars(f) == f.lines[f.i + 1]

\* `pos + 1 < chars.len() && chars[pos] == a && chars[pos + 1] == b`
Marker(f, a, b) ==
    /\ f.pos + 1 < Len(Chars(f))
    /\ At(Chars(f), f.pos) = a
    /\ At(Chars(f), f.pos + 1) = b

\* mutant of IsOrdinaryLineComment: `///` and `//!` are not told apart from `//`
IsAnyLineComment(f) == f.pos + 2 < Len(Chars(f))

\* `pos + 2 < chars.len() && chars[pos+2] != '/' && chars[pos+2] != '!'`
IsOrdinaryLineComment(f) ==
    /\ f.pos + 2 < Len(Chars(f))
    /\ At(Chars(f), f.pos + 2) # "/"
    /\ At(Chars(f), f.pos + 2) # "!"

\* mutant of IsOrdinaryBlockOpener: the character behind the opener is
\* compared with `*`
IsOrdinaryBlockOpenerThird(f) ==
    /\ f.pos + 2 < Len(Chars(f))
    /\ At(Chars(f), f.pos + 2) # "*"
    /\ At(Chars(f), f.pos + 2) # "!"

\* `pos + 2 < chars.len() && chars[pos+1] != '*' && chars[pos+2] != '!'`
IsOrdinaryBlockOpener(f) ==
    /\ f.pos + 2 < Len(Chars(f))
    /\ At(Chars(f), f.pos + 1) # "*"
    /\ At(Chars(f), f.pos + 2) # "!"

\* mutant of LexLineComment: the fragment is pushed untrimmed
LexLineCommentUntrimmed(f) ==
    IF IsOrdinaryLineComment(f)
    THEN [f EXCEPT !.comments = Append(@, From(Chars(f), f.pos)),
                   !.pos = Len(Chars(f))]
    ELSE [f EXCEPT !.pos = Len(Chars(f))]

\* `//` outside a scope; `break` leaves the character loop, which the model
\* renders by moving pos to the end of the line
LexLineComment(f) ==
    IF IsOrdinaryLineComment(f)
    THEN [f EXCEPT !.comments = Append(@, Trim(From(Chars(f), f.pos))),
                   !.pos = Len(Chars(f))]
    ELSE [f EXCEPT !.pos = Len(Chars(f))]

\* `/*` outside a scope
LexBlockOpen(f) ==
    IF IsOrdinaryBlockOpener(f)
    THEN [f EXCEPT !.commentStack = Append(@, "inline"),
                   !.current_block = @ \o <<"/", "*">>,
                   !.pos = f.pos + 2]
    ELSE [f EXCEPT !.commentStack = Append(@, "doc"),
                   !.pos = f.pos + 3]

\* `/*` inside a scope
LexNestedOpen(f) ==
    [f EXCEPT !.commentStack = Append(@, "inline"),
              !.current_block =
                  IF f.commentStack[1] = "inline" THEN @ \o <<"/", "*">> ELSE @,
              !.pos = f.pos + 2]

\* `*/` inside a scope
LexBlockClose(f) ==
    LET popped == SubSeq(f.commentStack, 1, Len(f.commentStack) - 1)
        block == f.current_block \o <<"*", "/">>
    IN
    IF f.commentStack[1] = "doc"
    THEN [f EXCEPT !.commentStack = popped, !.pos = f.pos + 2]
    ELSE IF popped = <<>>
         THEN [f EXCEPT !.commentStack = popped,
                        !.comments = Append(@, Trim(block)),
                        !.current_block = <<>>,
                        !.pos = f.pos + 2]
         ELSE [f EXCEPT !.commentStack = popped,
                        !.current_block = block,
                        !.pos = f.pos + 2]

\* mutant of LexBlockChar: the character is kept whatever the outermost scope
LexBlockCharKept(f) ==
    [f EXCEPT !.current_block = Append(@, At(Chars(f), f.pos)),
              !.pos = f.pos + 1]

\* any other character inside a scope
LexBlockChar(f) ==
    [f EXCEPT !.current_block =
                  IF f.commentStack[1] = "inline"
                  THEN Append(@, At(Chars(f), f.pos)) ELSE @,
              !.pos = f.pos + 1]

\* mutant of LexStep: `//` is looked for before the scope stack is
LexStepLineCommentFirst(f) ==
    IF Marker(f, "/", "/") THEN LexLineComment(f)
    ELSE IF f.commentStack = <<>> THEN
        IF Marker(f, "/", "*") THEN LexBlockOpen(f)
        ELSE [f EXCEPT !.pos = f.pos + 1]
    ELSE
        IF Marker(f, "/", "*") THEN LexNestedOpen(f)
        ELSE IF Marker(f, "*", "/") THEN LexBlockClose(f)
        ELSE LexBlockChar(f)

\* one iteration of `while pos < chars.len()` (main.rs 174-240)
LexStep(f) ==
    IF f.commentStack = <<>> THEN
        IF Marker(f, "/", "/") THEN LexLineComment(f)
        ELSE IF Marker(f, "/", "*") THEN LexBlockOpen(f)
        ELSE [f EXCEPT !.pos = f.pos + 1]
    ELSE
        IF Marker(f, "/", "*") THEN LexNestedOpen(f)
        ELSE IF Marker(f, "*", "/") THEN LexBlockClose(f)
        ELSE LexBlockChar(f)

\* mutant of MarkerReads: both characters are read without the length test
MarkerReadsUnguarded(f, a) == {f.pos, f.pos + 1}

\* the indexes of chars that the test
\* `pos + 1 < chars.len() && chars[pos] == a && chars[pos + 1] == b` reads:
\* && evaluates its right operand only when the left one holds
MarkerReads(f, a) ==
    IF f.pos + 1 < Len(Chars(f))
    THEN {f.pos} \cup (IF At(Chars(f), f.pos) = a THEN {f.pos + 1} ELSE {})
    ELSE {}

\* the indexes read by the test of main.rs 181 and by `chars[pos..]`
LineCommentReads(f) ==
    IF f.pos + 2 < Len(Chars(f))
    THEN {f.pos + 2} \cup
         (IF IsOrdinaryLineComment(f) THEN f.pos .. Len(Chars(f)) - 1 ELSE {})
    ELSE {}

\* the indexes read by the test of main.rs 196
BlockOpenerReads(f) ==
    IF f.pos + 2 < Len(Chars(f))
    THEN {f.pos + 1} \cup (IF At(Chars(f), f.pos + 1) # "*" THEN {f.pos + 2} ELSE {})
    ELSE {}

\* the indexes read inside a scope (main.rs 210-238)
ScopeReads(f) ==
    MarkerReads(f, "/") \cup
    IF Marker(f, "/", "*") THEN {}
    ELSE MarkerReads(f, "*") \cup
         IF Marker(f, "*", "/") THEN {}
         ELSE IF f.commentStack[1] = "inline" THEN {f.pos} ELSE {}

\* the indexes of chars read by the loop test and one iteration of
\* `while pos < chars.len()` (main.rs 174-240)
LexReads(f) ==
    IF f.pos >= Len(Chars(f)) THEN {}
    ELSE IF f.commentStack = <<>> THEN
        MarkerReads(f, "/") \cup
        IF Marker(f, "/", "/") THEN LineCommentReads(f)
        ELSE MarkerReads(f, "/") \cup
             IF Marker(f, "/", "*") THEN BlockOpenerReads(f) ELSE {}
    ELSE ScopeReads(f)

\* the end of an iteration of `for line in lines` (main.rs 244-247)
LexLineEnd(f) ==
    [f EXCEPT !.current_block = IF f.commentStack # <<>> THEN Append(@, NL) ELSE @,
              !.i = f.i + 1,
              !.pos = 0]

\* after the loop (main.rs 250-254): the value returned
LexResult(f) ==
    IF Trim(f.current_block) # <<>>
    THEN Append(f.comments, Trim(f.current_block))
    ELSE f.comments

\* the character loop of one line, as a whole
RECURSIVE LexLineRun(_)
LexLineRun(f) ==
    IF f.pos < Len(Chars(f)) THEN LexLineRun(LexStep(f)) ELSE f

\* the line loop, as a whole
RECURSIVE LexRun(_)
LexRun(f) ==
    IF f.i >= Len(f.lines) THEN f
    ELSE LexRun(LexLineEnd(LexLineRun(f)))

extract_comments_from_lines(lines) == LexResult(LexRun(LexEntry(lines)))

-----------------------------------------------------------------------------
(* extract_inline_comments (main.rs 265-378)                               *)
(* Its first loop repeats the lexer's code over the lines before the       *)
(* target, with one more statement: code outside a scope clears comments.  *)

\* the frame at function entry (main.rs 266-274 and 278-279)
InlEntry(source) ==
    [lines |-> Lines(source), i |-> 0, pos |-> 0, commentStack |-> <<>>,
     current_block |-> <<>>, comments |-> <<>>, result |-> <<>>]

\* `//` outside a scope (main.rs 286-300)
PreLineComment(f) ==
    IF IsOrdinaryLineComment(f)
    THEN [f EXCEPT !.comments = Append(@, Trim(From(Chars(f), f.pos))),
                   !.pos = Len(Chars(f))]
    ELSE [f EXCEPT !.pos = Len(Chars(f))]

\* `/*` outside a scope (main.rs 302-311)
PreBlockOpen(f) ==
    IF IsOrdinaryBlockOpener(f)
    THEN [f EXCEPT !.commentStack = Append(@, "inline"),
                   !.current_block = @ \o <<"/", "*">>,
                   !.pos = f.pos + 2]
    ELSE [f EXCEPT !.commentStack = Append(@, "doc"),
                   !.pos = f.pos + 3]

\* mutant of PreCodeChar: code between comments clears nothing
PreCodeCharKeeps(f) == [f EXCEPT !.pos = f.pos + 1]

\* mutant of PreCodeChar: every whitespace character is exempt from clearing
PreCodeCharWhitespace(f) ==
    [f EXCEPT !.comments =
                  IF f.comments # <<>> /\ ~IsWhitespace(At(Chars(f), f.pos)) THEN <<>> ELSE @,
              !.pos = f.pos + 1]

\* any other character outside a scope (main.rs 312-317)
PreCodeChar(f) ==
    [f EXCEPT !.comments =
                  IF f.comments # <<>> /\ At(Chars(f), f.pos) # " " THEN <<>> ELSE @,
              !.pos = f.pos + 1]

\* `/*` inside a scope (main.rs 320-325)
PreNestedOpen(f) ==
    [f EXCEPT !.commentStack = Append(@, "inline"),
              !.current_block =
                  IF f.commentStack[1] = "inline" THEN @ \o <<"/", "*">> ELSE @,
              !.pos = f.pos + 2]

\* `*/` inside a scope (main.rs 326-342)
PreBlockClose(f) ==
    LET popped == SubSeq(f.commentStack, 1, Len(f.commentStack) - 1)
        block == f.current_block \o <<"*", "/">>
    IN
    IF f.commentStack[1] = "doc"
    THEN [f EXCEPT !.commentStack = popped, !.pos = f.pos + 2]
    ELSE IF popped = <<>>
         THEN [f EXCEPT !.commentStack = popped,
                        !.comments = Append(@, Trim(block)),
                        !.current_block = <<>>,
                        !.pos = f.pos + 2]
         ELSE [f EXCEPT !.commentStack = popped,
                        !.current_block = block,
                        !.pos = f.pos + 2]

\* any other character inside a scope (main.rs 343-348)
PreBlockChar(f) ==
    [f EXCEPT !.current_block =
                  IF f.commentStack[1] = "inline"
                  THEN Append(@, At(Chars(f), f.pos)) ELSE @,
              !.pos = f.pos + 1]

\* mutant of PreStep: a character of code outside a scope ends the scan of
\* its line
PreStepCodeEndsLine(f) ==
    IF f.commentStack = <<>> THEN
        IF Marker(f, "/", "/") THEN PreLineComment(f)
        ELSE IF Marker(f, "/", "*") THEN PreBlockOpen(f)
        ELSE IF At(Chars(f), f.pos) # " "
             THEN [PreCodeChar(f) EXCEPT !.pos = Len(Chars(f))]
             ELSE PreCodeChar(f)
    ELSE
        IF Marker(f, "/", "*") THEN PreNestedOpen(f)
        ELSE IF Marker(f, "*", "/") THEN PreBlockClose(f)
        ELSE PreBlockChar(f)

\* one iteration of `while pos < chars.len()` (main.rs 281-350)
PreStep(f) ==
    IF f.commentStack = <<>> THEN
        IF Marker(f, "/", "/") THEN PreLineComment(f)
        ELSE IF Marker(f, "/", "*") THEN PreBlockOpen(f)
        ELSE PreCodeChar(f)
    ELSE
        IF Marker(f, "/", "*") THEN PreNestedOpen(f)
        ELSE IF Marker(f, "*", "/") THEN PreBlockClose(f)
        ELSE PreBlockChar(f)

\* the indexes of chars read by the loop test and one iteration of
\* `while pos < chars.len()` (main.rs 281-350); main.rs 313 reads chars[pos]
\* when comments is not empty
PreReads(f) ==
    IF f.pos >= Len(Chars(f)) THEN {}
    ELSE IF f.commentStack = <<>> THEN
        MarkerReads(f, "/") \cup
        IF Marker(f, "/", "/") THEN LineCommentReads(f)
        ELSE MarkerReads(f, "/") \cup
             IF Marker(f, "/", "*") THEN BlockOpenerReads(f)
             ELSE IF f.comments # <<>> THEN {f.pos} ELSE {}
    ELSE ScopeReads(f)

\* the end of an iteration of `while i<extracted_start_line-1` (main.rs 354-357)
PreLineEnd(f) ==
    [f EXCEPT !.current_block = IF f.commentStack # <<>> THEN Append(@, NL) ELSE @,
              !.i = f.i + 1,
              !.pos = 0]

\* after the loop (main.rs 361-364): the last push and result.extend(comments)
PreFinish(f) ==
    LET all == IF Trim(f.current_block) # <<>>
               THEN Append(f.comments, Trim(f.current_block))
               ELSE f.comments
    IN [f EXCEPT !.comments = all, !.result = f.result \o all]

\* `i<extracted_start_line-1` on usize: with a start line of 0 the subtraction
\* wraps in a release build (every i is below usize::MAX) and panics in a
\* debug build
InPreLoop(f, start) == start = 0 \/ f.i < start - 1

\* `extracted_start_line - 1 < lines.len() && extracted_end_line <= lines.len()`
SpanInDocument(f, start, end) ==
    /\ start - 1 < Len(f.lines)
    /\ end <= Len(f.lines)

\* mutant of InsideLines: the lines are taken from the top of the document
InsideLinesFromTop(f, start, end) == SubSeq(f.lines, 1, end)

\* `lines[extracted_start_line - 1 .. extracted_end_line]`
InsideLines(f, start, end) == SubSeq(f.lines, start, end)

\* mutant of InlExtend: the fragments of the span are put in front
InlExtendInFront(f, inside_comments) == [f EXCEPT !.result = inside_comments \o @]

\* result.extend(inside_comments) (main.rs 373)
InlExtend(f, inside_comments) == [f EXCEPT !.result = @ \o inside_comments]

\* the first loop as a whole, for start lines within the document
RECURSIVE PreRun(_, _)
PreRun(f, start) ==
    IF f.i >= start - 1 \/ f.i >= Len(f.lines) THEN f
    ELSE IF f.pos < Len(Chars(f)) THEN PreRun(PreStep(f), start)
    ELSE PreRun(PreLineEnd(f), start)

\* the call panics: 0 - 1 on usize or `lines[i]` past the last line in the
\* first loop, or a slice whose start lies behind its end
InlinePanics(source, start, end) ==
    LET lines == Lines(source)
    IN \/ start = 0
       \/ start - 1 > Len(lines)
       \/ /\ start - 1 < Len(lines)
          /\ end <= Len(lines)
          /\ start - 1 > end

\* main.rs 265-378, for the calls that return
extract_inline_comments(source, start, end) ==
    LET f == PreFinish(PreRun(InlEntry(source), start))
    IN IF SpanInDocument(f, start, end)
       THEN InlExtend(f, extract_comments_from_lines(InsideLines(f, start, end))).result
       ELSE f.result

-----------------------------------------------------------------------------
(* The syntax locator (main.rs 380-568)                                    *)
(* A node of the syntax tree is a record: kind (the variant of syn::Item,  *)
(* syn::ForeignItem or syn::ImplItem), ident, start_line and end_line of   *)
(* its span, items (the items of an extern block, an impl block or an      *)
(* inline module, and the items declared in the block of a function), and  *)
(* has_content (a module's content is Some).                               *)

None == [variant |-> "None"]
Some(variant, node) == [variant |-> variant, node |-> node]

\* mutant of SpanContains: the end of the span is not looked at
SpanContainsFromStart(node, target_line) == node.start_line <= target_line

\* `start_line <= target_line && end_line >=target_line`
SpanContains(node, target_line) ==
    /\ node.start_line <= target_line
    /\ node.end_line >= target_line

\* the loop over the items of an extern block (main.rs 435-463)
RECURSIVE ForeignModLoop(_, _, _)
ForeignModLoop(items, k, target_line) ==
    IF k > Len(items) THEN None
    ELSE IF items[k].kind = "ForeignFn"
         THEN IF SpanContains(items[k], target_line)
              THEN Some("ForeignItemFn", items[k])
              ELSE None
    ELSE ForeignModLoop(items, k + 1, target_line)

\* mutant of ImplLoop: the loop is left at the first method that does not
\* contain the line, as the loop over an extern block is
RECURSIVE ImplLoopEarlyExit(_, _, _)
ImplLoopEarlyExit(items, k, target_line) ==
    IF k > Len(items) THEN None
    ELSE IF items[k].kind = "Method"
         THEN IF SpanContains(items[k], target_line)
              THEN Some("ImplItemMethod", items[k])
              ELSE None
    ELSE ImplLoopEarlyExit(items, k + 1, target_line)

\* the loop over the items of an impl block (main.rs 466-491)
RECURSIVE ImplLoop(_, _, _)
ImplLoop(items, k, target_line) ==
    IF k > Len(items) THEN None
    ELSE IF items[k].kind = "Method" /\ SpanContains(items[k], target_line)
         THEN Some("ImplItemMethod", items[k])
    ELSE ImplLoop(items, k + 1, target_line)

RECURSIVE find_function_item(_, _)
RECURSIVE ModLoop(_, _, _)

\* mutant of ModLoop: a module inside the module is not entered
RECURSIVE ModLoopShallow(_, _, _)
ModLoopShallow(items, k, target_line) ==
    IF k > Len(items) THEN None
    ELSE LET res == IF items[k].kind = "Mod" THEN None
                    ELSE find_function_item(items[k], target_line)
         IN IF res # None THEN res ELSE ModLoopShallow(items, k + 1, target_line)

\* the loop over the items of an inline module (main.rs 518-524)
ModLoop(items, k, target_line) ==
    IF k > Len(items) THEN None
    ELSE LET res == find_function_item(items[k], target_line)
         IN IF res # None THEN res ELSE ModLoop(items, k + 1, target_line)

\* mutant of find_function_item: an item of another kind matches by its span
\* and is returned as if it were a free function
find_function_item_AnyItem(item, target_line) ==
    CASE item.kind = "ForeignMod" -> ForeignModLoop(item.items, 1, target_line)
      [] item.kind = "Impl" -> ImplLoop(item.items, 1, target_line)
      [] item.kind = "Macro" ->
             IF SpanContains(item, target_line) THEN Some("ItemMacro", item) ELSE None
      [] item.kind = "Macro2" ->
             IF SpanContains(item, target_line) THEN Some("ItemMacro2", item) ELSE None
      [] item.kind = "Mod" ->
             IF SpanContains(item, target_line) /\ item.has_content
             THEN ModLoop(item.items, 1, target_line)
             ELSE None
      [] OTHER ->
             IF SpanContains(item, target_line) THEN Some("ItemFn", item) ELSE None

\* main.rs 419-543
find_function_item(item, target_line) ==
    CASE item.kind = "Fn" ->
             IF SpanContains(item, target_line) THEN Some("ItemFn", item) ELSE None
      [] item.kind = "ForeignMod" -> ForeignModLoop(item.items, 1, target_line)
      [] item.kind = "Impl" -> ImplLoop(item.items, 1, target_line)
      [] item.kind = "Macro" ->
             IF SpanContains(item, target_line) THEN Some("ItemMacro", item) ELSE None
      [] item.kind = "Macro2" ->
             IF SpanContains(item, target_line) THEN Some("ItemMacro2", item) ELSE None
      [] item.kind = "Mod" ->
             IF SpanContains(item, target_line)
             THEN IF item.has_content
                  THEN ModLoop(item.items, 1, target_line)
                  ELSE None
             ELSE None
      [] OTHER -> None

\* the loop variable at function entry (main.rs 561)
LocEntry == [idx |-> 0]

\* one iteration of `for item in &ast.items` (main.rs 561-566): the value
\* returned, or None to go on
LocStep(ast, f, target_line) == find_function_item(ast.items[f.idx + 1], target_line)

\* the loop as a whole and the `return None` behind it
RECURSIVE LocRun(_, _, _)
LocRun(ast, f, target_line) ==
    IF f.idx >= Len(ast.items) THEN None
    ELSE LET res == LocStep(ast, f, target_line)
         IN IF res # None THEN res
            ELSE LocRun(ast, [f EXCEPT !.idx = @ + 1], target_line)

\* main.rs 546-568
find_function_by_start_line(ast, target_line) == LocRun(ast, LocEntry, target_line)

-----------------------------------------------------------------------------
(* The doc-comment extractor (main.rs 50-158)                              *)
(* The node of a located function carries attrs, its attributes in source  *)
(* order.  An attribute is a record: path (the identifier of its path),    *)
(* meta (what parse_meta gives: "NameValue", "List", "Path", or "Err" when *)
(* it fails), lit (the kind of literal of a name-value) and value (the     *)
(* value of a string literal).                                             *)

\* mutant of DocString: the path of the attribute is not looked at
DocStringAnyPath(attr) ==
    IF attr.meta = "NameValue" /\ attr.lit = "Str" THEN <<attr.value>> ELSE <<>>

\* the closure of filter_map (main.rs 55-64): Some(lit.value()) as a
\* sequence of one string, None as the empty sequence
DocString(attr) ==
    IF attr.path = "doc"
    THEN IF attr.meta = "NameValue"
         THEN IF attr.lit = "Str" THEN <<attr.value>> ELSE <<>>
         ELSE <<>>
    ELSE <<>>

\* attrs.iter().filter_map(..).collect()
RECURSIVE FilterMapDoc(_)
FilterMapDoc(attrs) ==
    IF attrs = <<>> THEN <<>>
    ELSE DocString(Head(attrs)) \o FilterMapDoc(Tail(attrs))

\* main.rs 50-158: one arm per variant, all with the same code
extract_doc_comments(func) ==
    CASE func.variant = "ItemFn" -> FilterMapDoc(func.node.attrs)
      [] func.variant = "ForeignItemFn" -> FilterMapDoc(func.node.attrs)
      [] func.variant = "ImplItemMethod" -> FilterMapDoc(func.node.attrs)
      [] func.variant = "ItemMacro" -> FilterMapDoc(func.node.attrs)
      [] func.variant = "ItemMacro2" -> FilterMapDoc(func.node.attrs)

\* [String]::join(sep)
RECURSIVE Join(_, _)
Join(strings, sep) ==
    IF strings = <<>> THEN <<>>
    ELSE IF Len(strings) = 1 THEN strings[1]
    ELSE strings[1] \o sep \o Join(Tail(strings), sep)

-----------------------------------------------------------------------------
(* Inputs *)

RECURSIVE Texts(_)
Texts(n) ==
    IF n = 0 THEN {<<>>}
    ELSE LET shorter == Texts(n - 1)
         IN shorter \cup {Append(t, c) : t \in {u \in shorter : Len(u) = n - 1},
                                         c \in Alphabet \cup {NL}}

\* the examples of the specification, as lines
ExLineComment == << <<"/", "/", " ", "a", "b">> >>
ExDocLine == << <<"/", "/", "/", "a", "b">> >>
ExInnerDocLine == << <<"/", "/", "!", "a", "b">> >>
ExBlock == << <<"/", "*", " ", "a", " ", "*", "/">> >>
ExBlockTwoLines == << <<"/", "*", " ", "a">>, <<"b", " ", "*", "/">> >>
ExNested ==
    << <<"/", "*", " ", "a", " ", "/", "*", " ", "b", " ", "*", "/", " ", "c", " ", "*", "/">> >>
ExDocBlock == << <<"/", "*", "*", " ", "d", "o", "c", " ", "*", "/">> >>
ExInnerDocBlock == << <<"/", "*", "!", " ", "d", "o", "c", " ", "*", "/">> >>
ExDocNested ==
    << <<"/", "*", "*", " ", "/", "*", " ", "x", " ", "*", "/">>, <<"y", " ", "*", "/">> >>
ExUnterminated == << <<"/", "*", " ", "a">>, <<"b">> >>
ExEmptyBlock == << <<"/", "*", "*", "/">>, <<"/", "/", " ", "a">> >>

Examples ==
    {ExLineComment, ExDocLine, ExInnerDocLine, ExBlock, ExBlockTwoLines, ExNested,
     ExDocBlock, ExInnerDocBlock, ExDocNested, ExUnterminated, ExEmptyBlock}

LexInputs == {Lines(t) : t \in Texts(MaxSize)} \cup Examples

\* the contiguity example of the specification: a stale comment, a line of
\* code, the kept comment, the target
ExContiguity ==
    <<"/", "/", " ", "s", "t", "a", "l", "e", " ", "c", "o", "m", "m", "e",
      "n", "t", NL, "c", "o", "d", "e", "_", "l", "i", "n", "e", "(", ")",
      ";", NL, "/", "/", " ", "k", "e", "p", "t", " ", "c", "o", "m", "m",
      "e", "n", "t", NL, "f", "n", " ", "t", "a", "r", "g", "e", "t", "(",
      ")", " ", "{", "}", NL>>

ExContiguityCall ==
    [fn |-> "extract_inline_comments", source |-> ExContiguity,
     extracted_start_line |-> 4, extracted_end_line |-> 4]

\* a comment above a function and a comment in its body
ExOrder ==
    <<"/", "/", " ", "a", NL, "f", "n", " ", "f", "(", ")", " ", "{", " ",
      "/", "/", " ", "b", NL, "}", NL>>

ExOrderCall ==
    [fn |-> "extract_inline_comments", source |-> ExOrder,
     extracted_start_line |-> 2, extracted_end_line |-> 3]

ExampleCalls == {ExContiguityCall, ExOrderCall}

\* a block comment that is never closed above a function with a comment
ExUnclosedAbove ==
    <<"/", "*", " ", "a", NL, "f", "n", " ", "f", "(", ")", " ", "{", "}", " ",
      "/", "/", " ", "b", NL>>

\* a comment, a comment indented with a tab, the target
ExTabIndent ==
    <<"/", "/", " ", "a", NL, TAB, "/", "/", " ", "b", NL, "f", "n", " ", "f",
      "(", ")", " ", "{", "}", NL>>

ExTabIndentCall ==
    [fn |-> "extract_inline_comments", source |-> ExTabIndent,
     extracted_start_line |-> 3, extracted_end_line |-> 3]

\* a comment, a line of code with a comment behind it, a blank line, the
\* target
ExTrailing ==
    <<"/", "/", " ", "x", NL, "c", "o", "d", "e", "(", ")", ";", " ", "/", "/",
      " ", "c", NL, NL, "f", "n", " ", "f", "(", ")", " ", "{", "}", NL>>

ExTrailingCall ==
    [fn |-> "extract_inline_comments", source |-> ExTrailing,
     extracted_start_line |-> 4, extracted_end_line |-> 4]

ExUnclosedAboveCall ==
    [fn |-> "extract_inline_comments", source |-> ExUnclosedAbove,
     extracted_start_line |-> 2, extracted_end_line |-> 2]

InlineCalls ==
    [fn : {"extract_inline_comments"}, source : Texts(MaxSourceSize),
     extracted_start_line : 0 .. MaxLineNo, extracted_end_line : 0 .. MaxLineNo]
    \cup ExampleCalls \cup {ExUnclosedAboveCall, ExTabIndentCall, ExTrailingCall}

-----------------------------------------------------------------------------
(* Syntax trees *)

\* the kinds of the generated trees; Struct stands for every kind of item
\* the locator passes over
ItemKinds == {"Fn", "ForeignMod", "Impl", "Macro", "Macro2", "Mod", "Struct"}
ForeignItemKinds == {"ForeignFn", "ForeignStatic"}
ImplItemKinds == {"Method", "ImplConst"}

\* the kinds of the items a node of this kind holds
ChildKinds(kind) ==
    CASE kind \in {"Fn", "Mod"} -> ItemKinds
      [] kind = "ForeignMod" -> ForeignItemKinds
      [] kind = "Impl" -> ImplItemKinds
      [] OTHER -> {}

RECURSIVE NodeCount(_)
RECURSIVE NodeCountAll(_)
NodeCount(node) == 1 + NodeCountAll(node.items)
NodeCountAll(items) ==
    IF items = <<>> THEN 0 ELSE NodeCount(Head(items)) + NodeCountAll(Tail(items))

\* the item lists of the given kinds on the lines lo .. hi with at most
\* budget nodes: items follow one another in line order (an item may begin on
\* the line its predecessor ends on), the items of a node lie within its span,
\* and ident numbers the nodes in declaration order from id on
RECURSIVE ItemLists(_, _, _, _, _)
RECURSIVE Nodes(_, _, _, _, _)
ItemLists(kinds, lo, hi, budget, id) ==
    {<<>>} \cup
    IF budget = 0 THEN {}
    ELSE UNION { { <<node>> \o rest :
                     rest \in ItemLists(kinds, node.end_line, hi,
                                        budget - NodeCount(node), id + NodeCount(node)) } :
                 node \in Nodes(kinds, lo, hi, budget, id) }

Nodes(kinds, lo, hi, budget, id) ==
    UNION { UNION { UNION {
        { [kind |-> kind, ident |-> id, start_line |-> s, end_line |-> e,
           items |-> children, has_content |-> kind = "Mod"] :
            children \in ItemLists(ChildKinds(kind), s, e, budget - 1, id + 1) }
        \cup
        IF kind = "Mod"
        THEN { [kind |-> kind, ident |-> id, start_line |-> s, end_line |-> e,
                items |-> <<>>, has_content |-> FALSE] }
        ELSE {}
      : e \in s .. hi } : s \in lo .. hi } : kind \in kinds }

Trees == { [items |-> items] : items \in ItemLists(ItemKinds, 1, MaxLine, MaxNodes, 1) }

Leaf(kind, id, s, e) ==
    [kind |-> kind, ident |-> id, start_line |-> s, end_line |-> e,
     items |-> <<>>, has_content |-> FALSE]

Block(kind, id, s, e, items) ==
    [kind |-> kind, ident |-> id, start_line |-> s, end_line |-> e,
     items |-> items, has_content |-> kind = "Mod"]

\* fn outer() {
\*     fn inner() {}
\* }
ExNestedFn ==
    [items |-> << Block("Fn", 1, 1, 3, << Leaf("Fn", 2, 2, 2) >>) >>]

\* extern "C" { fn a();
\*     fn b(); } fn c() {}
ExExternThenFn ==
    [items |-> << Block("ForeignMod", 1, 1, 2,
                        << Leaf("ForeignFn", 2, 1, 1), Leaf("ForeignFn", 3, 2, 2) >>),
                  Leaf("Fn", 4, 2, 2) >>]

\* extern "C" { fn a();
\*     fn b();
\*     fn c(); }
ExExternThree ==
    [items |-> << Block("ForeignMod", 1, 1, 3,
                        << Leaf("ForeignFn", 2, 1, 1), Leaf("ForeignFn", 3, 2, 2),
                           Leaf("ForeignFn", 4, 3, 3) >>) >>]

\* impl T { const K: u8 = 0;
\*     fn m1() {}
\*     mac!(); type A = u8;
\*     fn m2() {} }
ExImpl ==
    [items |-> << Block("Impl", 1, 1, 4,
                        << Leaf("ImplConst", 2, 1, 1), Leaf("Method", 3, 2, 2),
                           Leaf("ImplMacro", 4, 3, 3), Leaf("ImplType", 5, 3, 3),
                           Leaf("Method", 6, 4, 4) >>) >>]

\* mod a { mod b {
\*     mod c { fn f() {} }
\* } }
ExDeepMod ==
    [items |-> << Block("Mod", 1, 1, 3,
                    << Block("Mod", 2, 1, 3,
                         << Block("Mod", 3, 2, 2, << Leaf("Fn", 4, 2, 2) >>) >>) >>) >>]

\* trait T {
\*     fn d() {}
\* }
\* struct S;
ExTrait ==
    [items |-> << Block("Trait", 1, 1, 3, << Leaf("TraitMethod", 2, 2, 2) >>),
                  Leaf("Struct", 3, 4, 4) >>]

\* an Item::Macro node of the macro with the given path: syn parses every
\* macro invocation in item position into Item::Macro, a macro_rules!
\* definition as well as `thread_local! { .. }`
MacroItem(id, s, e, path) ==
    [kind |-> "Macro", ident |-> id, start_line |-> s, end_line |-> e,
     items |-> <<>>, has_content |-> FALSE, mac |-> path]

\* macro_rules! m { () => {}; }
\* thread_local! {
\*     static X: u8 = 0; }
\* macro n() {}
ExMacros ==
    [items |-> << MacroItem(1, 1, 1, "macro_rules"), MacroItem(2, 2, 3, "thread_local"),
                  Leaf("Macro2", 3, 4, 4) >>]

ExampleTrees ==
    {ExNestedFn, ExExternThenFn, ExExternThree, ExImpl, ExDeepMod, ExTrait, ExMacros}

LastLine(ast) ==
    IF ast.items = <<>> THEN 0 ELSE ast.items[Len(ast.items)].end_line

LocateCalls ==
    [fn : {"find_function_by_start_line"}, ast : Trees, target_line : 0 .. MaxLine + 1]
    \cup { [fn |-> "find_function_by_start_line", ast |-> t, target_line |-> l] :
               t \in ExampleTrees, l \in 0 .. MaxLine + 2 }

\* the calls that are made again and again
RepeatCalls ==
    { [fn |-> "extract_comments_from_lines", lines |-> l] :
         l \in {ExLineComment, ExUnterminated, ExDocNested} }
    \cup ExampleCalls
    \cup { [fn |-> "find_function_by_start_line", ast |-> t, target_line |-> l] :
               t \in {ExNestedFn, ExExternThenFn}, l \in {2, 4} }

-----------------------------------------------------------------------------
(* Attributes *)

Attr(path, meta, lit, value) == [path |-> path, meta |-> meta, lit |-> lit, value |-> value]

\* `/// text` and `#[doc = "text"]`: the parser hands a `///` comment over as
\* the attribute #[doc = "..."] whose value is all that follows the `///`
DocAttr(value) == Attr("doc", "NameValue", "Str", value)

Attributes ==
    { DocAttr(<<"a">>), DocAttr(<<" ", "b">>), DocAttr(<<>>),
      Attr("doc", "List", "None", <<>>),                \* #[doc(hidden)]
      Attr("doc", "NameValue", "Int", <<>>),            \* #[doc = 1]
      Attr("doc", "Err", "None", <<>>),                 \* parse_meta fails
      Attr("inline", "Path", "None", <<>>),             \* #[inline]
      Attr("deprecated", "NameValue", "Str", <<"c">>) } \* #[deprecated = "c"]

RECURSIVE AttrLists(_)
AttrLists(n) ==
    IF n = 0 THEN {<<>>}
    ELSE LET shorter == AttrLists(n - 1)
         IN shorter \cup {Append(l, a) : l \in {u \in shorter : Len(u) = n - 1},
                                         a \in Attributes}

\* the node with its attributes
Attributed(node, attrs) ==
    [kind |-> node.kind, ident |-> node.ident, start_line |-> node.start_line,
     end_line |-> node.end_line, items |-> node.items,
     has_content |-> node.has_content, attrs |-> attrs]

\* the five variants with the kind of node each holds
Variants ==
    { <<"ItemFn", "Fn">>, <<"ForeignItemFn", "ForeignFn">>,
      <<"ImplItemMethod", "Method">>, <<"ItemMacro", "Macro">>,
      <<"ItemMacro2", "Macro2">> }

DocCalls ==
    { [fn |-> "extract_doc_comments",
       func |-> Some(v[1], Attributed(Leaf(v[2], 1, 1, 1), attrs))] :
          v \in Variants, attrs \in AttrLists(MaxAttrs) }

\* no call is running; nothing has been returned
Idle == [idle |-> TRUE]
NoValue == [none |-> TRUE]

-----------------------------------------------------------------------------
(* The world of main: the cache of crates, the files of their archives and  *)
(* what the parser makes of them                                            *)

\* str::replace(from, to) for one-character patterns
RECURSIVE Replace(_, _, _)
Replace(name, from, to) ==
    IF name = <<>> THEN <<>>
    ELSE <<IF Head(name) = from THEN to ELSE Head(name)>> \o Replace(Tail(name), from, to)

\* the crates the records name: the directory of a_b is in the cache as a-b,
\* that of c as c, d has no directory, the directory of e holds no .crate file
CrateNames == { <<"a", "_", "b">>, <<"c">>, <<"d">>, <<"e">> }
CacheDirs == { <<"a", "-", "b">>, <<"c">>, <<"e">> }
CrateArchives == { <<"a", "-", "b">>, <<"c">> }

\* /// Adds numbers.
\* fn add(a: i32, b: i32) -> i32 {
\*     // sum them
\*     a + b
\* }
ExAdd ==
    <<"/", "/", "/", " ", "A", "d", "d", "s", " ", "n", "u", "m", "b", "e",
      "r", "s", ".", NL, "f", "n", " ", "a", "d", "d", "(", "a", ":", " ",
      "i", "3", "2", ",", " ", "b", ":", " ", "i", "3", "2", ")", " ", "-",
      ">", " ", "i", "3", "2", " ", "{", NL, " ", " ", " ", " ", "/", "/",
      " ", "s", "u", "m", " ", "t", "h", "e", "m", NL, " ", " ", " ", " ",
      "a", " ", "+", " ", "b", NL, "}", NL >>

\* its syntax tree: one free function whose span begins at its first
\* attribute, the documentation comment of line 1
ExAddAst ==
    [items |-> << Attributed(Leaf("Fn", 1, 1, 5),
                             << DocAttr(<<" ", "A", "d", "d", "s", " ", "n", "u", "m",
                                          "b", "e", "r", "s", ".">>) >>) >>]

\* fn g() {} // c
\*
\* mod m { fn f() {} }
ExLib ==
    <<"f", "n", " ", "g", "(", ")", " ", "{", "}", " ", "/", "/", " ", "c",
      NL, NL, "m", "o", "d", " ", "m", " ", "{", " ", "f", "n", " ", "f",
      "(", ")", " ", "{", "}", " ", "}", NL >>

ExLibAst ==
    [items |-> << Attributed(Leaf("Fn", 1, 1, 1), <<>>),
                  Block("Mod", 2, 3, 3, << Attributed(Leaf("Fn", 3, 3, 3), <<>>) >>) >>]

\* a source the parser rejects and a source on which the parser panics
ExBad == <<"f", "n", " ", "(">>
ExBoom == <<"?">>

\* the files of every archive, each with its text; gone.rs is in no archive
ArchiveFiles == {"add.rs", "lib.rs", "bad.rs", "boom.rs"}
FileNames == ArchiveFiles \cup {"gone.rs"}

\* fs::read_to_string(&file_path)
SourceOf(file) ==
    CASE file = "add.rs" -> ExAdd
      [] file = "lib.rs" -> ExLib
      [] file = "bad.rs" -> ExBad
      [] file = "boom.rs" -> ExBoom

\* catch_unwind(|| syn::parse_str::<File>(&source)) on these texts
ParseStr(source) ==
    CASE source = ExAdd -> [outcome |-> "Ok", ast |-> ExAddAst]
      [] source = ExLib -> [outcome |-> "Ok", ast |-> ExLibAst]
      [] source = ExBad -> [outcome |-> "Err"]
      [] source = ExBoom -> [outcome |-> "Panic"]

\* a start line field that is no unsigned number: the text "-1"
NoNumber == 0 - 1

\* record.get(10).unwrap().parse() to usize (main.rs 664-666)
ParsesAsUsize(field) == field >= 0

\* a record of the CSV file: len (the number of its fields) and the fields
\* main reads
Record(len, crate, safety, rel_file, start_line) ==
    [len |-> len, crate |-> crate, safety |-> safety, rel_file |-> rel_file,
     start_line |-> start_line]

Records ==
    { Record(13, <<"c">>, "Safe", "lib.rs", l) : l \in 0 .. MaxTarget }
    \cup { Record(13, <<"c">>, "Safe", f, 2) :
          f \in {"add.rs", "bad.rs", "boom.rs", "gone.rs"} }
    \cup { Record(13, <<"a", "_", "b">>, "Safe", "lib.rs", 1),
           Record(13, <<"a", "_", "b">>, "Safe", "add.rs", 2),
           Record(13, <<"a", "_", "b">>, "Safe", "gone.rs", 2) }
    \cup { Record(13, c, "Safe", "add.rs", 2) : c \in { <<"d">>, <<"e">> } }
    \cup { Record(13, c, "Unsafe", "add.rs", 2) : c \in { <<"c">>, <<"d">> } }
    \cup { Record(13, <<"d">>, s, "add.rs", NoNumber) : s \in {"Safe", "Unsafe"} }
    \cup { Record(9, <<"c">>, "Safe", "add.rs", 2),
           Record(10, <<"c">>, "Safe", "add.rs", 2) }

-----------------------------------------------------------------------------
(* main (main.rs 607-1152)                                                 *)
(* run holds the locals of main (crate_name, crate_root, results, the      *)
(* counters, the record, source and ast of the iteration), the two failure *)
(* files (reasons, failed), the result files (written: one entry per       *)
(* append, with the crate of the file name and the batch), the unpacked    *)
(* crate directories on disk, and pushed: every result ever put into the   *)
(* batch, in order, with resolved: the records those results were made     *)
(* for.  A result has the fields of FunctionCommentStatus but def_path,    *)
(* which main copies from the record without reading it.                   *)

\* the locals at the head of the record loop (main.rs 639-651)
MainEntry ==
    [crate_name |-> <<>>, crate_root |-> <<>>, results |-> <<>>,
     all_extracted_function_num |-> 0, failed_extract_record_count |-> 0,
     extract_index |-> 0, record |-> Idle, source |-> <<>>, ast |-> Idle,
     reasons |-> <<>>, failed |-> <<>>, written |-> <<>>, unpacked |-> {},
     pushed |-> <<>>, resolved |-> <<>>]

\* the reason is appended to records_failed_reason.txt, the record to
\* records_failed_to_extract.csv (write_when_fail), and the counter goes up
LogFailure(r, reason) ==
    [r EXCEPT !.reasons = Append(@, reason),
              !.failed = Append(@, r.record),
              !.failed_extract_record_count = @ + 1]

\* fs::remove_dir_all(crate_root) when the directory exists
RemoveCrateRoot(r) == [r EXCEPT !.unpacked = @ \ {r.crate_root}]

\* mutant of Flush: the file is named after the crate of the incoming record
FlushUnderRecordCrate(r) ==
    RemoveCrateRoot([r EXCEPT !.written = Append(@, [crate |-> r.record.crate,
                                                      json |-> r.results]),
                              !.results = <<>>])

\* mutant of Flush: the batch is written and not cleared
FlushKeepsBatch(r) ==
    RemoveCrateRoot([r EXCEPT !.written = Append(@, [crate |-> r.crate_name,
                                                      json |-> r.results])])

\* the batch is appended to result-<crate_name>.json and cleared, and the
\* directory of the crate is removed (main.rs 726-762)
Flush(r) ==
    RemoveCrateRoot([r EXCEPT !.written = Append(@, [crate |-> r.crate_name,
                                                      json |-> r.results]),
                              !.results = <<>>])

\* the directory of the crate in the cache: under the name of the record or
\* under that name with `_` replaced by `-` (main.rs 767-796)
TargetCrate(new_crate_name) ==
    IF new_crate_name \in CacheDirs THEN new_crate_name
    ELSE Replace(new_crate_name, "_", "-")

\* the archive is unpacked and becomes the current crate (main.rs 797-863)
Unpack(r, target) ==
    [r EXCEPT !.unpacked = @ \cup {target},
              !.crate_name = target,
              !.crate_root = target]

\* `file_path.exists()` (main.rs 869-871)
FileExists(r) ==
    /\ r.crate_root \in r.unpacked
    /\ r.record.rel_file \in ArchiveFiles

\* mutant of ParseFailed: the failure also empties the batch
ParseFailedDropsBatch(r, reason) == [LogFailure(r, reason) EXCEPT !.results = <<>>]

\* the arms Ok(Err(parse_err)) and Err(panic_payload) (main.rs 902-959)
ParseFailed(r, reason) == LogFailure(r, reason)

\* the result of a located node (main.rs 1000-1108)
ResultOf(r, func) ==
    LET extracted_start_line == func.node.start_line
        extracted_end_line == func.node.end_line
        doc_comments == extract_doc_comments(func)
        inline_comments == extract_inline_comments(r.source, extracted_start_line,
                                                   extracted_end_line)
    IN [crate_name |-> r.crate_name,
        file |-> r.record.rel_file,
        line |-> extracted_start_line,
        has_doc |-> doc_comments # <<>>,
        doc_paragraph |-> Join(doc_comments, <<" ">>),
        has_inline_comment |-> inline_comments # <<>>,
        inline_comment_paragraph |-> Join(inline_comments, <<" ">>)]

\* results.push(..) (main.rs 1099-1108)
Push(r, result) ==
    [r EXCEPT !.results = Append(@, result), !.pushed = Append(@, result),
              !.resolved = Append(@, r.record)]

\* mutant of NotFound: the failure is logged and an empty result is pushed
NotFoundPushes(r) ==
    Push(LogFailure(r, "Failed to find function by strat line"),
         [crate_name |-> r.crate_name, file |-> r.record.rel_file, line |-> 0,
          has_doc |-> FALSE, doc_paragraph |-> <<>>,
          has_inline_comment |-> FALSE, inline_comment_paragraph |-> <<>>])

\* the else branch of the locator call (main.rs 1042-1083)
NotFound(r) == LogFailure(r, "Failed to find function by strat line")

-----------------------------------------------------------------------------
(* The calls as a state machine *)

Init ==
    /\ pc = "idle"
    /\ call = Idle
    /\ ret = NoValue
    /\ lexFrame = Idle
    /\ inlFrame = Idle
    /\ locFrame = Idle
    /\ log = {}
    /\ run = Idle

\* the function of call c is entered: its locals are set up
Enter(c) ==
    /\ call' = c
    /\ ret' = NoValue
    /\ CASE c.fn = "extract_comments_from_lines" ->
                /\ lexFrame' = LexEntry(c.lines)
                /\ pc' = "lex"
                /\ UNCHANGED <<inlFrame, locFrame>>
         [] c.fn = "extract_inline_comments" ->
                /\ inlFrame' = InlEntry(c.source)
                /\ pc' = "pre"
                /\ UNCHANGED <<lexFrame, locFrame>>
         [] c.fn = "find_function_by_start_line" ->
                /\ locFrame' = LocEntry
                /\ pc' = "loc"
                /\ UNCHANGED <<lexFrame, inlFrame>>

\* extract_comments_from_lines(lines) is called
LexCall ==
    /\ pc = "idle"
    /\ \E lines \in LexInputs :
           Enter([fn |-> "extract_comments_from_lines", lines |-> lines])
    /\ UNCHANGED log
    /\ UNCHANGED run

\* one iteration of the character loop
LexChar ==
    /\ pc = "lex"
    /\ lexFrame.i < Len(lexFrame.lines)
    /\ lexFrame.pos < Len(Chars(lexFrame))
    /\ lexFrame' = LexStep(lexFrame)
    /\ UNCHANGED <<pc, call, ret, inlFrame, locFrame, log>>
    /\ UNCHANGED run

\* the character loop of a line is left
LexEndOfLine ==
    /\ pc = "lex"
    /\ lexFrame.i < Len(lexFrame.lines)
    /\ lexFrame.pos >= Len(Chars(lexFrame))
    /\ lexFrame' = LexLineEnd(lexFrame)
    /\ UNCHANGED <<pc, call, ret, inlFrame, locFrame, log>>
    /\ UNCHANGED run

\* the line loop is left and the function returns, to the outside or to
\* extract_inline_comments, which extends its result and returns it
LexReturn ==
    /\ pc = "lex"
    /\ lexFrame.i >= Len(lexFrame.lines)
    /\ IF call.fn = "extract_inline_comments"
       THEN /\ inlFrame' = InlExtend(inlFrame, LexResult(lexFrame))
            /\ ret' = inlFrame'.result
       ELSE /\ ret' = LexResult(lexFrame)
            /\ UNCHANGED inlFrame
    /\ pc' = "done"
    /\ UNCHANGED <<call, lexFrame, locFrame, log>>
    /\ UNCHANGED run

\* extract_inline_comments(source, extracted_start_line, extracted_end_line)
\* is called
InlineCall ==
    /\ pc = "idle"
    /\ \E c \in InlineCalls : Enter(c)
    /\ UNCHANGED log
    /\ UNCHANGED run

\* one iteration of the character loop of the lines before the target
PreChar ==
    /\ pc = "pre"
    /\ InPreLoop(inlFrame, call.extracted_start_line)
    /\ inlFrame.i < Len(inlFrame.lines)
    /\ inlFrame.pos < Len(Chars(inlFrame))
    /\ inlFrame' = PreStep(inlFrame)
    /\ UNCHANGED <<pc, call, ret, lexFrame, locFrame, log>>
    /\ UNCHANGED run

\* the character loop of a line before the target is left
PreEndOfLine ==
    /\ pc = "pre"
    /\ InPreLoop(inlFrame, call.extracted_start_line)
    /\ inlFrame.i < Len(inlFrame.lines)
    /\ inlFrame.pos >= Len(Chars(inlFrame))
    /\ inlFrame' = PreLineEnd(inlFrame)
    /\ UNCHANGED <<pc, call, ret, lexFrame, locFrame, log>>
    /\ UNCHANGED run

\* `lines[i]` past the last line, or (debug build) 0 - 1 on usize
PrePanic ==
    /\ pc = "pre"
    /\ InPreLoop(inlFrame, call.extracted_start_line)
    /\ call.extracted_start_line = 0 \/ inlFrame.i >= Len(inlFrame.lines)
    /\ pc' = "panic"
    /\ UNCHANGED <<call, ret, lexFrame, inlFrame, locFrame, log>>
    /\ UNCHANGED run

\* the first loop is left
PreDone ==
    /\ pc = "pre"
    /\ ~InPreLoop(inlFrame, call.extracted_start_line)
    /\ inlFrame' = PreFinish(inlFrame)
    /\ pc' = "span"
    /\ UNCHANGED <<call, ret, lexFrame, locFrame, log>>
    /\ UNCHANGED run

\* the span lies in the document: its lines are handed to the lexer
InlineInside ==
    /\ pc = "span"
    /\ SpanInDocument(inlFrame, call.extracted_start_line, call.extracted_end_line)
    /\ call.extracted_start_line - 1 <= call.extracted_end_line
    /\ lexFrame' = LexEntry(InsideLines(inlFrame, call.extracted_start_line,
                                        call.extracted_end_line))
    /\ pc' = "lex"
    /\ UNCHANGED <<call, ret, inlFrame, locFrame, log>>
    /\ UNCHANGED run

\* the slice lines[a..b] with a > b panics
InlineSlicePanic ==
    /\ pc = "span"
    /\ SpanInDocument(inlFrame, call.extracted_start_line, call.extracted_end_line)
    /\ call.extracted_start_line - 1 > call.extracted_end_line
    /\ pc' = "panic"
    /\ UNCHANGED <<call, ret, lexFrame, inlFrame, locFrame, log>>
    /\ UNCHANGED run

\* the span does not lie in the document: the result is returned as it is
InlineSkip ==
    /\ pc = "span"
    /\ ~SpanInDocument(inlFrame, call.extracted_start_line, call.extracted_end_line)
    /\ ret' = inlFrame.result
    /\ pc' = "done"
    /\ UNCHANGED <<call, lexFrame, inlFrame, locFrame, log>>
    /\ UNCHANGED run

\* find_function_by_start_line(ast, target_line) is called
LocateCall ==
    /\ pc = "idle"
    /\ \E c \in LocateCalls : Enter(c)
    /\ UNCHANGED log
    /\ UNCHANGED run

\* one iteration of the loop over the items of the file
LocItem ==
    /\ pc = "loc"
    /\ locFrame.idx < Len(call.ast.items)
    /\ LET res == LocStep(call.ast, locFrame, call.target_line)
       IN IF res # None
          THEN /\ ret' = res
               /\ pc' = "done"
               /\ UNCHANGED locFrame
          ELSE /\ locFrame' = [locFrame EXCEPT !.idx = @ + 1]
               /\ UNCHANGED <<pc, ret>>
    /\ UNCHANGED <<call, lexFrame, inlFrame, log>>
    /\ UNCHANGED run

\* the loop is left: `return None`
LocNotFound ==
    /\ pc = "loc"
    /\ locFrame.idx >= Len(call.ast.items)
    /\ ret' = None
    /\ pc' = "done"
    /\ UNCHANGED <<call, lexFrame, inlFrame, locFrame, log>>
    /\ UNCHANGED run

\* the first of a series of calls
FirstCall ==
    /\ pc = "idle"
    /\ \E c \in RepeatCalls : Enter(c)
    /\ UNCHANGED log
    /\ UNCHANGED run

\* a call has returned and the caller, keeping what it returned, calls again
NextCall ==
    /\ pc = "done"
    /\ Cardinality(log) + 1 < MaxCalls
    /\ \E c \in RepeatCalls : Enter(c)
    /\ log' = log \cup {<<call, ret>>}
    /\ UNCHANGED run

\* main has located a node and calls extract_doc_comments(&func)
DocCall ==
    /\ pc = "idle"
    /\ \E c \in DocCalls : call' = c
    /\ ret' = NoValue
    /\ pc' = "doc"
    /\ UNCHANGED <<lexFrame, inlFrame, locFrame, log, run>>

\* the strings are returned and main derives has_doc and doc_paragraph
\* (main.rs 1041, 1086-1087)
DocReturn ==
    /\ pc = "doc"
    /\ LET doc_comments == extract_doc_comments(call.func)
       IN ret' = [doc_comments |-> doc_comments,
                  has_doc |-> doc_comments # <<>>,
                  doc_paragraph |-> Join(doc_comments, <<" ">>)]
    /\ pc' = "done"
    /\ UNCHANGED <<call, lexFrame, inlFrame, locFrame, log, run>>

\* main is started (main.rs 607-651)
MainStart ==
    /\ pc = "idle"
    /\ run' = MainEntry
    /\ pc' = "records"
    /\ UNCHANGED <<call, ret, lexFrame, inlFrame, locFrame, log>>

\* the head of an iteration (main.rs 652-711): the record is read; a record
\* of fewer than 10 fields and a record that is not Safe are passed over,
\* record.get(12).unwrap() panics on a record of 10 to 12 fields, and main
\* panics, before it looks at the safety field, on a start line that is no
\* unsigned number
MainNextRecord ==
    /\ pc = "records"
    /\ run.extract_index < MaxRecords
    /\ \E record \in Records :
          LET r == [run EXCEPT !.extract_index = @ + 1]
          IN IF record.len < 10
             THEN run' = r /\ pc' = "records"
             ELSE IF record.len < 13
             THEN run' = r /\ pc' = "panic"
             ELSE IF ~ParsesAsUsize(record.start_line)
             THEN run' = [r EXCEPT !.record = record] /\ pc' = "panic"
             ELSE IF record.safety # "Safe"
             THEN run' = r /\ pc' = "records"
             ELSE /\ run' = [r EXCEPT !.all_extracted_function_num = @ + 1,
                                      !.record = record]
                  /\ pc' = "switch"
    /\ UNCHANGED <<call, ret, lexFrame, inlFrame, locFrame, log>>

\* the crate of the record against the current one (main.rs 712-867): on a
\* change a batch that is not empty is flushed (main returns when the write
\* fails), then the directory of the new crate is looked up and its archive
\* unpacked; main panics when the directory holds no archive
MainSwitch ==
    /\ pc = "switch"
    /\ IF run.record.crate = run.crate_name
       THEN pc' = "file" /\ UNCHANGED run
       ELSE \E write_ok \in BOOLEAN :
              IF run.results # <<>> /\ ~write_ok
              THEN pc' = "returned" /\ UNCHANGED run
              ELSE LET r == IF run.results # <<>> THEN Flush(run) ELSE run
                       target == TargetCrate(run.record.crate)
                   IN IF target \notin CacheDirs
                      THEN /\ run' = LogFailure(r, "cannot find crate_name target crate path")
                           /\ pc' = "records"
                      ELSE IF target \notin CrateArchives
                      THEN run' = r /\ pc' = "panic"
                      ELSE run' = Unpack(r, target) /\ pc' = "file"
    /\ UNCHANGED <<call, ret, lexFrame, inlFrame, locFrame, log>>

\* the file is read and parsed (main.rs 869-991)
MainParse ==
    /\ pc = "file"
    /\ IF ~FileExists(run)
       THEN /\ run' = LogFailure(run, "file path does not exist")
            /\ pc' = "records"
       ELSE LET source == SourceOf(run.record.rel_file)
                parsed == ParseStr(source)
            IN CASE parsed.outcome = "Err" ->
                      /\ run' = ParseFailed(run, "Failed to parse file")
                      /\ pc' = "records"
                 [] parsed.outcome = "Panic" ->
                      /\ run' = ParseFailed(run, "Failed to parse file panic when parsing")
                      /\ pc' = "records"
                 [] parsed.outcome = "Ok" ->
                      /\ run' = [run EXCEPT !.source = source, !.ast = parsed.ast]
                      /\ pc' = "locate"
    /\ UNCHANGED <<call, ret, lexFrame, inlFrame, locFrame, log>>

\* the node is located, its comments are extracted and the result is put
\* into the batch (main.rs 993-1108)
MainResolve ==
    /\ pc = "locate"
    /\ LET func == find_function_by_start_line(run.ast, run.record.start_line)
       IN IF func = None
          THEN run' = NotFound(run) /\ pc' = "records"
          ELSE IF InlinePanics(run.source, func.node.start_line, func.node.end_line)
          THEN pc' = "panic" /\ UNCHANGED run
          ELSE run' = Push(run, ResultOf(run, func)) /\ pc' = "records"
    /\ UNCHANGED <<call, ret, lexFrame, inlFrame, locFrame, log>>

\* the records are used up (main.rs 1111-1151): the batch is written, also
\* when it is empty, and the directory of the current crate is removed
MainEnd ==
    /\ pc = "records"
    /\ \E write_ok \in BOOLEAN :
          IF write_ok
          THEN /\ run' = RemoveCrateRoot(
                            [run EXCEPT !.written = Append(@, [crate |-> run.crate_name,
                                                               json |-> run.results])])
               /\ pc' = "end"
          ELSE pc' = "returned" /\ UNCHANGED run
    /\ UNCHANGED <<call, ret, lexFrame, inlFrame, locFrame, log>>

Next == LexCall \/ LexChar \/ LexEndOfLine \/ LexReturn

Spec == Init /\ [][Next]_vars

NextInline ==
    \/ InlineCall
    \/ PreChar \/ PreEndOfLine \/ PrePanic \/ PreDone
    \/ InlineInside \/ InlineSlicePanic \/ InlineSkip
    \/ LexChar \/ LexEndOfLine \/ LexReturn

SpecInline == Init /\ [][NextInline]_vars

NextLocate == LocateCall \/ LocItem \/ LocNotFound

SpecLocate == Init /\ [][NextLocate]_vars

NextCalls ==
    \/ FirstCall \/ NextCall
    \/ PreChar \/ PreEndOfLine \/ PreDone \/ InlineInside
    \/ LexChar \/ LexEndOfLine \/ LexReturn
    \/ LocItem \/ LocNotFound

SpecCalls == Init /\ [][NextCalls]_vars

NextDoc == DocCall \/ DocReturn

NextMain ==
    \/ MainStart \/ MainNextRecord \/ MainSwitch \/ MainParse \/ MainResolve
    \/ MainEnd

SpecMain == Init /\ [][NextMain]_vars

\* main, or the locator called on a syntax tree of any shape
NextMainLocate == NextMain \/ NextLocate

SpecMainLocate == Init /\ [][NextMainLocate]_vars

SpecDoc == Init /\ [][NextDoc]_vars

-----------------------------------------------------------------------------
(* Helpers of the properties: the text as the claims describe it *)

\* the two characters a, b stand at the 0-based index p of chars
Occurs(chars, p, a, b) ==
    /\ p >= 0
    /\ p + 1 < Len(chars)
    /\ At(chars, p) = a
    /\ At(chars, p + 1) = b

\* the 0-based index of the first a b in chars, or -1
FirstOcc(chars, a, b) ==
    IF \E p \in 0 .. Len(chars) : Occurs(chars, p, a, b)
    THEN CHOOSE p \in 0 .. Len(chars) :
             /\ Occurs(chars, p, a, b)
             /\ \A q \in 0 .. p - 1 : ~Occurs(chars, q, a, b)
    ELSE -1

\* the lines as one text, a line break after every line but the last
RECURSIVE JoinLines(_)
JoinLines(lines) ==
    IF lines = <<>> THEN <<>>
    ELSE IF Len(lines) = 1 THEN lines[1]
    ELSE lines[1] \o <<NL>> \o JoinLines(Tail(lines))

\* part occurs in text as a run of consecutive characters
Contains(text, part) ==
    \E k \in 0 .. Len(text) - Len(part) : SubSeq(text, k + 1, k + Len(part)) = part

\* no comment marker /* or */ begins at the 1-based indexes lo .. hi of text
NoBlockMarker(text, lo, hi) ==
    \A k \in lo .. hi :
        /\ ~Occurs(text, k - 1, "/", "*")
        /\ ~Occurs(text, k - 1, "*", "/")

\* text from its 1-based index k on, read at nesting depth d >= 1, stays
\* inside the comment: the depth reaches 0 at the last character or never
RECURSIVE StaysInside(_, _, _)
StaysInside(text, k, d) ==
    IF k > Len(text) THEN TRUE
    ELSE IF Occurs(text, k - 1, "/", "*") THEN StaysInside(text, k + 2, d + 1)
    ELSE IF Occurs(text, k - 1, "*", "/")
         THEN IF d = 1 THEN k + 1 = Len(text) ELSE StaysInside(text, k + 2, d - 1)
    ELSE StaysInside(text, k + 1, d)

LexDone == pc = "done" /\ call.fn = "extract_comments_from_lines"
InlineDone == pc = "done" /\ call.fn = "extract_inline_comments"

-----------------------------------------------------------------------------
(* C1 *)

\* the lexer stands at the start of a line, outside every scope, and the
\* first // of the line has no /* in front of it
LineCommentCase(f) ==
    /\ f.i < Len(f.lines)
    /\ f.pos = 0
    /\ f.commentStack = <<>>
    /\ FirstOcc(Chars(f), "/", "/") >= 0
    /\ \A q \in 0 .. FirstOcc(Chars(f), "/", "/") : ~Occurs(Chars(f), q, "/", "*")

\* C1: on a line scanned outside every block scope, a first `//` followed by
\* a character other than `/` and `!` adds exactly one fragment, the text
\* from that `//` to the end of the line, trimmed; a first `//` followed by
\* `/` or `!` adds no fragment.
C1_LineComment ==
    (pc = "lex" /\ LineCommentCase(lexFrame)) =>
        LET chars == Chars(lexFrame)
            p == FirstOcc(chars, "/", "/")
            after == LexLineRun(lexFrame)
        IN IF p + 2 >= Len(chars) THEN TRUE
           ELSE IF At(chars, p + 2) \in {"/", "!"}
                THEN after.comments = lexFrame.comments
                ELSE after.comments = Append(lexFrame.comments, Trim(From(chars, p)))

\* the line `//a ` has been scanned and gave the trimmed fragment `//a`
C1_Witness ==
    /\ pc = "lex"
    /\ lexFrame.lines = << <<"/", "/", "a", " ">> >>
    /\ lexFrame.i = 0
    /\ lexFrame.pos = 4
    /\ lexFrame.comments = << <<"/", "/", "a">> >>

-----------------------------------------------------------------------------
(* C2 *)

\* the lines are one ordinary block comment: `/*`, a character other than
\* `*` and `!`, no further marker, and `*/` at the very end
OneOrdinaryBlock(lines) ==
    LET text == JoinLines(lines)
    IN /\ Len(text) >= 5
       /\ Occurs(text, 0, "/", "*")
       /\ text[3] \notin {"*", "!"}
       /\ Occurs(text, Len(text) - 2, "*", "/")
       /\ NoBlockMarker(text, 3, Len(text) - 2)

\* C2: a `/*` outside every scope and not followed by `*` or `!` opens an
\* ordinary scope, and the matching `*/` emits exactly one fragment, from `/*`
\* to `*/`, with a line break between the physical lines.
C2_OrdinaryBlock ==
    (LexDone /\ OneOrdinaryBlock(call.lines)) => ret = <<JoinLines(call.lines)>>

-----------------------------------------------------------------------------
(* C3 *)

\* C3: `/* a /* b */ c */` gives exactly one fragment, which holds `a`, the
\* inner `/* b */` and `c`, and the scope stack is empty again at the end.
C3_NestedBlock ==
    (LexDone /\ call.lines = ExNested) =>
        /\ Len(ret) = 1
        /\ Contains(ret[1], <<"a">>)
        /\ Contains(ret[1], <<"/", "*", " ", "b", " ", "*", "/">>)
        /\ Contains(ret[1], <<"c">>)
        /\ lexFrame.commentStack = <<>>

-----------------------------------------------------------------------------
(* C4 *)

\* the lines lie in one documentation block: they begin with `/**` or `/*!`
\* and the block is closed by their last characters or not at all
InsideDocBlock(lines) ==
    LET text == JoinLines(lines)
    IN /\ Len(text) >= 3
       /\ Occurs(text, 0, "/", "*")
       /\ text[3] \in {"*", "!"}
       /\ StaysInside(text, 3, 1)

\* C4: when all the lines lie inside a documentation block, ordinary blocks
\* nested in it included, no fragment is returned; `/** doc */` and
\* `/*! doc */` alone give the empty result.
C4_DocBlockDropped ==
    /\ (LexDone /\ InsideDocBlock(call.lines)) => ret = <<>>
    /\ InsideDocBlock(ExDocBlock) /\ InsideDocBlock(ExInnerDocBlock)
    /\ InsideDocBlock(ExDocNested)

\* the documentation block with a nested ordinary block has been scanned
C4_Witness ==
    /\ LexDone
    /\ call.lines = ExDocNested
    /\ ret = <<>>

-----------------------------------------------------------------------------
(* C5 *)

\* the 0-based index at which the code of a line ends: its first `//`, or
\* the end of the line
CodeEnd(chars) ==
    IF FirstOcc(chars, "/", "/") >= 0 THEN FirstOcc(chars, "/", "/") ELSE Len(chars)

\* the line has a character of code: a character other than a space in
\* front of its comment
HasCode(chars) == \E q \in 0 .. CodeEnd(chars) - 1 : At(chars, q) # " "

\* the line ends in an ordinary line comment with a body
HasLineComment(chars) ==
    /\ CodeEnd(chars) + 2 < Len(chars)
    /\ At(chars, CodeEnd(chars) + 2) \notin {"/", "!"}

\* the comment lines of the first k lines that no later code follows
RECURSIVE KeptComments(_, _)
KeptComments(lines, k) ==
    IF k = 0 THEN <<>>
    ELSE LET chars == lines[k]
             above == IF HasCode(chars) THEN <<>> ELSE KeptComments(lines, k - 1)
         IN IF HasLineComment(chars)
            THEN Append(above, Trim(From(chars, CodeEnd(chars))))
            ELSE above

\* the first k lines open no block scope and none of them ends in a bare `//`
OnlyLineComments(lines, k) ==
    \A j \in 1 .. k :
        /\ \A q \in 0 .. CodeEnd(lines[j]) : ~Occurs(lines[j], q, "/", "*")
        /\ CodeEnd(lines[j]) + 2 # Len(lines[j])

-----------------------------------------------------------------------------
(* C6 *)

\* C6: the value returned is the preceding-block fragments followed by the
\* fragments lexed from the lines start_line .. end_line, each in order of
\* appearance.
C6_PrecedingFirst ==
    InlineDone =>
        LET lines == Lines(call.source)
            start == call.extracted_start_line
            end == call.extracted_end_line
            before == PreFinish(PreRun(InlEntry(call.source), start)).comments
            inside == IF start <= Len(lines) /\ end <= Len(lines)
                      THEN extract_comments_from_lines(SubSeq(lines, start, end))
                      ELSE <<>>
        IN ret = before \o inside

\* a call returned a fragment of the lines above the target and a fragment
\* of the target's span
C6_Witness ==
    /\ InlineDone
    /\ call = ExOrderCall
    /\ ret = << <<"/", "/", " ", "a">>, <<"/", "/", " ", "b">> >>

-----------------------------------------------------------------------------
(* C7 *)

\* the lines are one ordinary block comment that is never closed
UnterminatedOrdinaryBlock(lines) ==
    LET text == JoinLines(lines)
    IN /\ Len(text) >= 3
       /\ Occurs(text, 0, "/", "*")
       /\ text[3] \notin {"*", "!"}
       /\ NoBlockMarker(text, 3, Len(text))

\* C7: when the range ends inside an ordinary block comment, the trimmed text
\* gathered for it is returned as the last fragment.
C7_UnterminatedBlock ==
    (LexDone /\ UnterminatedOrdinaryBlock(call.lines)) =>
        /\ ret # <<>>
        /\ ret[Len(ret)] = Trim(JoinLines(call.lines))

-----------------------------------------------------------------------------
(* C8 *)

\* C8: a call that is made again, whatever calls were made in between,
\* returns what it returned before: the lexer, the collector and the locator
\* keep nothing from one call to the next.
C8_NoHiddenState ==
    pc = "done" => \A e \in log : e[1] = call => e[2] = ret

\* a line comment has been lexed, then an unterminated block, then the line
\* comment again
C8_Witness ==
    /\ pc = "done"
    /\ call = [fn |-> "extract_comments_from_lines", lines |-> ExLineComment]
    /\ <<call, ret>> \in log
    /\ \E e \in log : e[1] = [fn |-> "extract_comments_from_lines", lines |-> ExUnterminated]

-----------------------------------------------------------------------------
(* C9, C10 *)

RECURSIVE AllNodes(_)
AllNodes(items) ==
    IF items = <<>> THEN {}
    ELSE {Head(items)} \cup AllNodes(Head(items).items) \cup AllNodes(Tail(items))

FunctionLike(node) == node.kind \in {"Fn", "ForeignFn", "Method", "Macro", "Macro2"}

\* the function-like nodes of the tree whose span contains the line
Containing(ast, target_line) ==
    {n \in AllNodes(ast.items) : FunctionLike(n) /\ SpanContains(n, target_line)}

\* those of them that hold no other one
Innermost(ast, target_line) ==
    {n \in Containing(ast, target_line) :
        AllNodes(n.items) \cap Containing(ast, target_line) = {}}

LocateDone == pc = "done" /\ call.fn = "find_function_by_start_line"

\* C9: the locator returns the innermost function-like node whose span
\* contains the line, the nested one when a function is declared in the body
\* of another, and not-found when no function-like node contains the line.
C9_Innermost ==
    LocateDone =>
        IF Containing(call.ast, call.target_line) = {}
        THEN ret = None
        ELSE ret # None /\ ret.node \in Innermost(call.ast, call.target_line)

\* C10: when several eligible nodes have a span that contains the line, the
\* locator returns the one that comes first in declaration order.
C10_FirstInOrder ==
    (LocateDone /\ Cardinality(Containing(call.ast, call.target_line)) > 1) =>
        /\ ret # None
        /\ \A n \in Containing(call.ast, call.target_line) : ret.node.ident <= n.ident

-----------------------------------------------------------------------------
(* C11 - C14: what the locator made of the top-level items it visited *)

\* the top-level items the returned call has visited
Visited ==
    1 .. (IF ret # None THEN locFrame.idx + 1 ELSE Len(call.ast.items))

\* what find_function_item gave for the k-th of them: the loop went on after
\* every item but the one that gave the value returned
Outcome(k) == IF ret # None /\ k = locFrame.idx + 1 THEN ret ELSE None

\* the indexes of the items of the given kind whose span contains the line
Matching(items, kind, target_line) ==
    {j \in 1 .. Len(items) : items[j].kind = kind /\ SpanContains(items[j], target_line)}

Least(S) == CHOOSE x \in S : \A y \in S : x <= y

\* the node of the least ident, the first in declaration order
FirstDeclared(S) == CHOOSE n \in S : \A m \in S : n.ident <= m.ident

\* C11: in an extern block with several function declarations, a line inside
\* the span of any of them, the first, a middle or the last one, resolves
\* to a declaration whose span contains the line.
C11_ExternDeclarations ==
    LocateDone =>
        \A k \in Visited :
            LET item == call.ast.items[k]
            IN (/\ item.kind = "ForeignMod"
                /\ Matching(item.items, "ForeignFn", call.target_line) # {})
               => /\ Outcome(k) # None
                  /\ Outcome(k).variant = "ForeignItemFn"
                  /\ Outcome(k).node.kind = "ForeignFn"
                  /\ SpanContains(Outcome(k).node, call.target_line)

\* C12: in an impl block a line inside a method's span resolves to that
\* method (the first one when several contain the line) wherever the method
\* stands among the items, past methods that do not match and past constants,
\* types and macros; a line of the block in no method's span resolves to
\* not-found.
C12_ImplMethods ==
    LocateDone =>
        \A k \in Visited :
            LET item == call.ast.items[k]
                methods == Matching(item.items, "Method", call.target_line)
            IN item.kind = "Impl" =>
                   IF methods = {}
                   THEN Outcome(k) = None
                   ELSE Outcome(k) = Some("ImplItemMethod", item.items[Least(methods)])

\* the line lies in the second method of the impl block, behind a constant
\* and a method that do not contain it, and that method is returned
C12_Witness ==
    /\ LocateDone
    /\ call.ast = ExImpl
    /\ call.target_line = 4
    /\ ret = Some("ImplItemMethod", Leaf("Method", 6, 4, 4))

\* the free functions reached from items through inline modules whose span
\* contains the line
RECURSIVE ModFns(_, _)
ModFns(items, target_line) ==
    IF items = <<>> THEN {}
    ELSE LET item == Head(items)
             here == IF ~SpanContains(item, target_line) THEN {}
                     ELSE IF item.kind = "Fn" THEN {item}
                     ELSE IF item.kind = "Mod" /\ item.has_content
                          THEN ModFns(item.items, target_line)
                     ELSE {}
         IN here \cup ModFns(Tail(items), target_line)

\* C13: a function nested in inline modules to any depth is found when the
\* line lies within the span of every enclosing module and of the function
\* (the value returned is that function, or an eligible node declared before
\* it); a module whose span does not contain the line, or without inline
\* content, gives not-found.
C13_NestedModules ==
    LocateDone =>
        \A k \in Visited :
            LET item == call.ast.items[k]
                fns == ModFns(<<item>>, call.target_line)
            IN item.kind = "Mod" =>
                /\ (~SpanContains(item, call.target_line) \/ ~item.has_content)
                       => Outcome(k) = None
                /\ fns # {} =>
                       /\ Outcome(k) # None
                       /\ SpanContains(Outcome(k).node, call.target_line)
                       /\ \A f \in fns : Outcome(k).node.ident <= f.ident
                       /\ Containing(call.ast, call.target_line) = fns
                              => Outcome(k) = Some("ItemFn", FirstDeclared(fns))

\* the function three modules deep has been found
C13_Witness ==
    /\ LocateDone
    /\ call.ast = ExDeepMod
    /\ call.target_line = 2
    /\ ret = Some("ItemFn", Leaf("Fn", 4, 2, 2))

\* C14: every node returned is a free function, an extern-block function
\* declaration, an impl-block method or an item-level macro whose span
\* contains the line; an item of any other kind gives not-found, also when an
\* item nested in it (a default-bodied trait method) contains the line.
C14_OnlyFunctionLike ==
    LocateDone =>
        /\ ret # None =>
               /\ <<ret.variant, ret.node.kind>> \in
                      { <<"ItemFn", "Fn">>, <<"ForeignItemFn", "ForeignFn">>,
                        <<"ImplItemMethod", "Method">>, <<"ItemMacro", "Macro">>,
                        <<"ItemMacro2", "Macro2">> }
               /\ SpanContains(ret.node, call.target_line)
        /\ \A k \in Visited :
               call.ast.items[k].kind \in {"Struct", "Trait"} => Outcome(k) = None

\* a line in the default-bodied method of a trait resolved to not-found
C14_Witness ==
    /\ LocateDone
    /\ call.ast = ExTrait
    /\ call.target_line = 2
    /\ ret = None

-----------------------------------------------------------------------------
(* C16 *)

\* the attribute documents the node: #[doc = "..."] with a string, which is
\* also what a `///` or `/** */` comment is
IsDocumentation(attr) == attr.path = "doc" /\ attr.meta = "NameValue" /\ attr.lit = "Str"

\* the strings with one space between each two of them
RECURSIVE SpaceSeparated(_)
SpaceSeparated(strings) ==
    IF strings = <<>> THEN <<>>
    ELSE IF Len(strings) = 1 THEN strings[1]
    ELSE SpaceSeparated(SubSeq(strings, 1, Len(strings) - 1))
             \o <<" ">> \o strings[Len(strings)]

\* C16: for a located node of any of the five kinds, the strings returned
\* are the values of the node's documentation attributes, one per attribute
\* and in source order, no other attribute contributing; doc_paragraph is
\* those strings with exactly one space between them, and has_doc is false
\* exactly when the node has no documentation attribute.
C16_DocStrings ==
    (pc = "done" /\ call.fn = "extract_doc_comments") =>
        LET attrs == call.func.node.attrs
            docs == {j \in 1 .. Len(attrs) : IsDocumentation(attrs[j])}
            nth(n) == CHOOSE j \in docs : Cardinality({i \in docs : i <= j}) = n
        IN /\ Len(ret.doc_comments) = Cardinality(docs)
           /\ \A n \in 1 .. Cardinality(docs) : ret.doc_comments[n] = attrs[nth(n)].value
           /\ ret.doc_paragraph = SpaceSeparated(ret.doc_comments)
           /\ ret.has_doc = (docs # {})

\* a macro definition with #[deprecated = "c"] between two documentation
\* attributes gave the two documentation strings
C16_Witness ==
    /\ pc = "done"
    /\ call.fn = "extract_doc_comments"
    /\ call.func.variant = "ItemMacro2"
    /\ call.func.node.attrs =
           << DocAttr(<<"a">>), Attr("deprecated", "NameValue", "Str", <<"c">>),
              DocAttr(<<" ", "b">>) >>
    /\ ret = [doc_comments |-> << <<"a">>, <<" ", "b">> >>, has_doc |-> TRUE,
              doc_paragraph |-> <<"a", " ", " ", "b">>]

-----------------------------------------------------------------------------
(* C15 *)

\* the line lies outside the span of every top-level item
OutsideTopLevel(ast, target_line) ==
    \A k \in 1 .. Len(ast.items) :
        target_line \notin ast.items[k].start_line .. ast.items[k].end_line

NotFoundReason == "Failed to find function by strat line"

\* C15: with the items of every node inside its span, a target line outside
\* the span of every top-level item (line 0 and lines past the end of the
\* file included) makes find_function_by_start_line return not-found, and
\* main then logs the record as a failure and puts no result into the batch.
C15_OutsideEveryItem ==
    [][/\ (pc = "loc" /\ pc' = "done" /\ OutsideTopLevel(call.ast, call.target_line))
           => ret' = None
       /\ (pc = "locate" /\ OutsideTopLevel(run.ast, run.record.start_line)) =>
              /\ pc' = "records"
              /\ run'.reasons = Append(run.reasons, NotFoundReason)
              /\ run'.failed = Append(run.failed, run.record)
              /\ run'.failed_extract_record_count = run.failed_extract_record_count + 1
              /\ run'.results = run.results
              /\ run'.pushed = run.pushed]_vars

\* a record with a target line past the end of lib.rs has been logged as a
\* failure, after a record that was resolved
C15_Witness ==
    /\ pc = "records"
    /\ run.record # Idle
    /\ run.results # <<>>
    /\ run.record.rel_file = "lib.rs"
    /\ run.record.start_line = 4
    /\ run.failed = <<run.record>>
    /\ run.reasons = <<NotFoundReason>>

-----------------------------------------------------------------------------
(* C17 *)

\* the results of the records that name add.rs, all with target line 2
AddResults ==
    IF pc = "idle" THEN {}
    ELSE {run.pushed[j] : j \in {i \in 1 .. Len(run.pushed) : run.pushed[i].file = "add.rs"}}

SumThem ==
    <<"/", "/", " ", "s", "u", "m", " ", "t", "h", "e", "m" >>

-----------------------------------------------------------------------------
(* C18 *)

ParseReasons == {"Failed to parse file", "Failed to parse file panic when parsing"}

\* the file of the record is there and the parser rejects it or panics
ParseFails ==
    /\ pc = "file"
    /\ FileExists(run)
    /\ ParseStr(SourceOf(run.record.rel_file)).outcome \in {"Err", "Panic"}

\* C18: when the parser returns an error or panics, main goes on with the
\* next record: the reason is logged, the record is written to the
\* failed-records file, nothing is put into the batch and the batch keeps
\* what it held.
C18_ParseFailureSkips ==
    [][ParseFails =>
           /\ pc' = "records"
           /\ Len(run'.reasons) = Len(run.reasons) + 1
           /\ SubSeq(run'.reasons, 1, Len(run.reasons)) = run.reasons
           /\ run'.reasons[Len(run'.reasons)] \in ParseReasons
           /\ run'.failed = Append(run.failed, run.record)
           /\ run'.results = run.results
           /\ run'.pushed = run.pushed
           /\ run'.written = run.written]_vars

\* the parser panicked on the record read last and the batch still holds the
\* result of an earlier record
C18_Witness ==
    /\ pc = "records"
    /\ run.record # Idle
    /\ run.record.rel_file = "boom.rs"
    /\ run.reasons = <<"Failed to parse file panic when parsing">>
    /\ run.failed = <<run.record>>
    /\ Len(run.results) = 1

-----------------------------------------------------------------------------
(* C19 *)

\* the results of all the batches written, in the order written
RECURSIVE AllWritten(_)
AllWritten(written) ==
    IF written = <<>> THEN <<>>
    ELSE AllWritten(SubSeq(written, 1, Len(written) - 1)) \o written[Len(written)].json

\* C19: while the record loop runs, the results written so far followed by
\* the batch are the results ever put into the batch; at the end of a run
\* that reaches its end the results written are exactly those, each once;
\* and the batch is empty right after a flush at a crate switch.
C19_WrittenOnce ==
    [][/\ pc' \in {"records", "switch", "file", "locate"}
           => AllWritten(run'.written) \o run'.results = run'.pushed
       /\ pc' = "end" => AllWritten(run'.written) = run'.pushed
       /\ (pc = "switch" /\ Len(run'.written) > Len(run.written))
           => run'.results = <<>>]_vars

\* the run has ended after a flush at a crate switch and the flush at the
\* end, each of a batch that held a result
C19_Witness ==
    /\ pc = "end"
    /\ Len(run.written) = 2
    /\ run.written[1].json # <<>>
    /\ run.written[2].json # <<>>
    /\ run.written[1].crate # run.written[2].crate

-----------------------------------------------------------------------------
(* C20 *)

\* C20: a record that reaches the parse step ends in exactly one of three
\* ways: resolved (one result is put into the batch and nothing is written
\* to the failure files), parse-unavailable or locus-unresolved (the failure
\* is logged and nothing is put into the batch).
C20_ThreeOutcomes ==
    [][((pc = "file" /\ FileExists(run)) \/ pc = "locate") =>
         LET logged == /\ Len(run'.reasons) = Len(run.reasons) + 1
                       /\ SubSeq(run'.reasons, 1, Len(run.reasons)) = run.reasons
                       /\ run'.failed = Append(run.failed, run.record)
             reason == run'.reasons[Len(run'.reasons)]
             silent == run'.reasons = run.reasons /\ run'.failed = run.failed
             kept == run'.results = run.results /\ run'.pushed = run.pushed
             one_more == /\ Len(run'.results) = Len(run.results) + 1
                         /\ SubSeq(run'.results, 1, Len(run.results)) = run.results
         IN \/ pc = "file" /\ pc' = "locate" /\ silent /\ kept
            \/ pc = "file" /\ pc' = "records" /\ logged /\ kept /\ reason \in ParseReasons
            \/ pc = "locate" /\ pc' = "records" /\ logged /\ kept /\ reason = NotFoundReason
            \/ pc = "locate" /\ pc' = "records" /\ silent /\ one_more]_vars

\* one record was resolved, for one the parser failed and for one no node
\* was found
C20_Witness ==
    /\ pc = "records"
    /\ Len(run.pushed) = 1
    /\ Len(run.reasons) = 2
    /\ NotFoundReason \in {run.reasons[1], run.reasons[2]}
    /\ "Failed to parse file" \in {run.reasons[1], run.reasons[2]}

-----------------------------------------------------------------------------
(* C21 *)

\* the indexes of the line under the scan
InLine(f) == 0 .. Len(Chars(f)) - 1

\* C21: in both scans, for every line of every length and every position the
\* scan reaches, every index of the line that is read lies below the line's
\* length, also after the position has moved on by 3 behind a block opener.
C21_ReadsInBounds ==
    /\ (pc = "lex" /\ lexFrame.i < Len(lexFrame.lines))
           => LexReads(lexFrame) \subseteq InLine(lexFrame)
    /\ (pc = "pre" /\ inlFrame.i < Len(inlFrame.lines))
           => PreReads(inlFrame) \subseteq InLine(inlFrame)

\* the line `/*` of two characters has been scanned in the lines before the
\* target: the position stands at 3, past the end of the line
C21_Witness ==
    /\ pc = "pre"
    /\ inlFrame.i < Len(inlFrame.lines)
    /\ Chars(inlFrame) = <<"/", "*">>
    /\ inlFrame.pos = 3

-----------------------------------------------------------------------------
(* C22 *)

\* the crate name that the records of the batch carry in the input: that of
\* the record resolved last
BatchCrate == run.resolved[Len(run.resolved)].crate

\* a batch is written at the crate switch
FlushAtSwitch == pc = "switch" /\ Len(run'.written) > Len(run.written)

\* C22: a batch is written only at a crate switch or at the end of the run,
\* and at a crate switch only when the crate name of the incoming record
\* differs from the crate name the records of the batch carry in the input:
\* two consecutive resolved records of one crate are never separated by a
\* flush, also when the crate's directory is found under the name with `_`
\* replaced by `-`.
C22_FlushOnlyOnChange ==
    [][/\ (pc \in {"records", "file", "locate"} /\ pc' # "end")
           => run'.written = run.written
       /\ FlushAtSwitch => run.record.crate # BatchCrate]_vars

-----------------------------------------------------------------------------
(* C23 *)

\* the first // of the line under the scan is its last two characters
BareLineComment(f) == FirstOcc(Chars(f), "/", "/") + 2 = Len(Chars(f))

\* C23: on a line scanned outside every block scope whose first `//` is its
\* last two characters, the scan of the line adds exactly one fragment, `//`:
\* a line comment is not dropped for having an empty body.
C23_BareLineComment ==
    (pc = "lex" /\ LineCommentCase(lexFrame) /\ BareLineComment(lexFrame)) =>
        LexLineRun(lexFrame).comments = Append(lexFrame.comments, <<"/", "/">>)

-----------------------------------------------------------------------------
(* C24 *)

\* the lexer stands in the character loop of a line
InCharLoop(f) == f.i < Len(f.lines) /\ f.pos < Len(Chars(f))

\* C24: a `//` met outside every scope ends the scan of its line with the
\* scope stack still empty, whatever follows it on the line, and the next line
\* starts with the stack as the line left it; a `//` met while a scope is open
\* is passed over as one character of the block: no fragment is added and the
\* rest of the line is scanned.
C24_NoInterference ==
    [][pc = "lex" /\ lexFrame.i < Len(lexFrame.lines) =>
         /\ (InCharLoop(lexFrame) /\ Marker(lexFrame, "/", "/")
                 /\ lexFrame.commentStack = <<>>)
             => /\ lexFrame'.pos = Len(Chars(lexFrame))
                /\ lexFrame'.i = lexFrame.i
                /\ lexFrame'.commentStack = <<>>
         /\ (InCharLoop(lexFrame) /\ Marker(lexFrame, "/", "/")
                 /\ lexFrame.commentStack # <<>>)
             => /\ lexFrame'.pos = lexFrame.pos + 1
                /\ lexFrame'.comments = lexFrame.comments
                /\ lexFrame'.commentStack = lexFrame.commentStack
         /\ ~InCharLoop(lexFrame)
             => /\ lexFrame'.i = lexFrame.i + 1
                /\ lexFrame'.pos = 0
                /\ lexFrame'.commentStack = lexFrame.commentStack
                /\ lexFrame'.comments = lexFrame.comments]_vars

\* the line `//a/*` has been scanned to its end: one fragment, no scope
C24_Witness ==
    /\ pc = "lex"
    /\ lexFrame.lines = << <<"/", "/", "a", "/", "*">> >>
    /\ lexFrame.i = 0
    /\ lexFrame.pos = 5
    /\ lexFrame.commentStack = <<>>
    /\ lexFrame.comments = << <<"/", "/", "a", "/", "*">> >>


-----------------------------------------------------------------------------
(* C25 *)

\* the nesting depth at the end of the lines, read as the claim reads them
\* from line k at the 0-based index p and depth d: outside a scope a `//`
\* ends the line and a `/*` opens a scope; inside a scope every `/*` opens
\* one more and every `*/` closes one
RECURSIVE DepthAtEnd(_, _, _, _)
DepthAtEnd(lines, k, p, d) ==
    IF k > Len(lines) THEN d
    ELSE IF p >= Len(lines[k]) THEN DepthAtEnd(lines, k + 1, 0, d)
    ELSE IF d = 0 /\ Occurs(lines[k], p, "/", "/") THEN DepthAtEnd(lines, k + 1, 0, d)
    ELSE IF Occurs(lines[k], p, "/", "*") THEN DepthAtEnd(lines, k, p + 2, d + 1)
    ELSE IF d > 0 /\ Occurs(lines[k], p, "*", "/") THEN DepthAtEnd(lines, k, p + 2, d - 1)
    ELSE DepthAtEnd(lines, k, p + 1, d)

\* every `/*` of the lines has its `*/`
Balanced(lines) == DepthAtEnd(lines, 1, 0, 0) = 0

\* C25: when every `/*` of the lines has a matching `*/`, a `*/` right behind
\* the two characters of the opener included, the scope stack is empty at the
\* end of the scan; after the empty comment `/**/` the `// a` of the next line
\* is returned.
C25_EveryClosePops ==
    LexDone =>
        /\ Balanced(call.lines) => lexFrame.commentStack = <<>>
        /\ call.lines = ExEmptyBlock => ret = << <<"/", "/", " ", "a">> >>


-----------------------------------------------------------------------------
(* C26 *)

\* the path of the macro an Item::Macro node invokes; the nodes of the
\* generated trees are macro_rules! definitions
MacroPath(node) == IF "mac" \in DOMAIN node THEN node.mac ELSE "macro_rules"

\* the node defines a macro, in the legacy or in the modern syntax
IsMacroDefinition(node) ==
    \/ node.kind = "Macro2"
    \/ node.kind = "Macro" /\ MacroPath(node) = "macro_rules"

\* C26: a macro node is returned only for a macro definition, legacy or
\* modern, whose span contains the line; a line inside an item-level macro
\* invocation that is no definition resolves to not-found.
C26_MacroDefinitionsOnly ==
    LocateDone =>
        /\ (ret # None /\ ret.variant \in {"ItemMacro", "ItemMacro2"})
               => IsMacroDefinition(ret.node) /\ SpanContains(ret.node, call.target_line)
        /\ \A k \in Visited :
               LET item == call.ast.items[k]
               IN (item.kind = "Macro" /\ ~IsMacroDefinition(item)) => Outcome(k) = None


-----------------------------------------------------------------------------
(* C27 *)

\* C27: a call of extract_inline_comments never panics, whatever the source
\* and the two line numbers (a start line of 0 and lines past the end of the
\* document included), and when the end line exceeds the line count the
\* value returned is the preceding-block fragments alone.
C27_ReturnsNormally ==
    /\ pc # "panic"
    /\ (InlineDone /\ call.extracted_end_line > Len(Lines(call.source)))
           => ret = PreFinish(PreRun(InlEntry(call.source),
                                     call.extracted_start_line)).comments


-----------------------------------------------------------------------------
(* C28 *)

\* the lines as a source, every line closed by a line break
RECURSIVE WithBreaks(_)
WithBreaks(lines) ==
    IF lines = <<>> THEN <<>> ELSE Head(lines) \o <<NL>> \o WithBreaks(Tail(lines))

\* the source that agrees with lines on the lines start .. end and holds
\* nothing else: empty lines in front of them, no line behind them
SpanAlone(lines, start, end) ==
    WithBreaks([k \in 1 .. start - 1 |-> <<>>] \o SubSeq(lines, start, end))

\* the source that agrees with lines on the lines before start and ends there
AboveAlone(lines, start) == WithBreaks(SubSeq(lines, 1, start - 1))

\* what the returned call took from the lines before the target and from the
\* span
PrecedingPart == inlFrame.comments
OwnPart == SubSeq(ret, Len(inlFrame.comments) + 1, Len(ret))

\* C28: the fragments of the span are the same for any two sources that agree
\* on the lines start_line .. end_line, and the preceding-block fragments are
\* the same for any two sources that agree on the lines before start_line.
\* Two sources that agree so both agree with the source that holds those
\* lines alone, so every source is compared with that one.
C28_IndependentScans ==
    InlineDone =>
        LET lines == Lines(call.source)
            start == call.extracted_start_line
            end == call.extracted_end_line
        IN /\ (start >= 1 /\ end <= Len(lines))
               => /\ ret = PrecedingPart \o OwnPart
                  /\ OwnPart = extract_inline_comments(SpanAlone(lines, start, end),
                                                       start, end)
           /\ (start >= 1 /\ start - 1 <= Len(lines))
               => PrecedingPart = extract_inline_comments(AboveAlone(lines, start),
                                                          start, end)

\* the call on a function under a block comment that is never closed has
\* returned the comment of the function's line
C28_Witness ==
    /\ InlineDone
    /\ call = ExUnclosedAboveCall
    /\ ret = << <<"/", "/", " ", "b">> >>


-----------------------------------------------------------------------------
(* C29 *)

BeginsWithSlashes(fragment) ==
    Len(fragment) >= 2 /\ fragment[1] = "/" /\ fragment[2] = "/"

\* the frame of a scan: the fragments gathered begin with `//`, an open
\* scope stack has a documentation scope at its bottom, and the buffer of
\* the block holds line breaks only
OnlyLineFragments(f) ==
    /\ \A k \in 1 .. Len(f.comments) : BeginsWithSlashes(f.comments[k])
    /\ f.commentStack # <<>> => f.commentStack[1] = "doc"
    /\ \A k \in 1 .. Len(f.current_block) : f.current_block[k] = NL

-----------------------------------------------------------------------------
(* C30 *)

\* the scan of the lines before the target stands, outside every scope, on
\* a character that begins neither a `//` nor a `/*`
OnCodeChar(f) ==
    /\ InCharLoop(f)
    /\ f.commentStack = <<>>
    /\ ~Marker(f, "/", "/")
    /\ ~Marker(f, "/", "*")

\* C30: in the scan of the lines before the target, a character outside
\* every scope that begins no `//` and no `/*` leaves the fragments as they
\* are when it is a space and discards all of them when it is anything else;
\* a tab in front of a comment discards the comments above it.
C30_OnlySpaceExempt ==
    [][/\ (pc = "pre" /\ pc' = "pre" /\ OnCodeChar(inlFrame))
           => /\ inlFrame'.pos = inlFrame.pos + 1
              /\ inlFrame'.comments =
                     IF At(Chars(inlFrame), inlFrame.pos) = " "
                     THEN inlFrame.comments ELSE <<>>
       /\ (pc' = "done" /\ call = ExTabIndentCall)
           => ret' = << <<"/", "/", " ", "b">> >>]_vars

\* the tab of the second line has discarded the comment of the first
C30_Witness ==
    /\ pc = "pre"
    /\ call = ExTabIndentCall
    /\ inlFrame.i = 1
    /\ inlFrame.pos = 1
    /\ inlFrame.comments = <<>>


-----------------------------------------------------------------------------
(* C31 *)

\* the line holds spaces only
IsBlank(chars) == \A q \in 1 .. Len(chars) : chars[q] = " "

\* line j is the last of the first k lines that is not blank
LastNonBlank(lines, k, j) ==
    /\ j \in 1 .. k
    /\ ~IsBlank(lines[j])
    /\ \A m \in j + 1 .. k : IsBlank(lines[m])

\* C31: when the last non-blank line before the target holds code and, behind
\* it, an ordinary line comment, the code discards the fragments gathered
\* above it and the comment is gathered: the preceding-block part is that
\* comment, from its `//` to the end of the line, trimmed.
C31_TrailingComment ==
    (pc = "span" /\ call.extracted_start_line - 1 <= Len(inlFrame.lines)
        /\ OnlyLineComments(inlFrame.lines, call.extracted_start_line - 1))
    => \A j \in 1 .. call.extracted_start_line - 1 :
           LET chars == inlFrame.lines[j]
           IN (/\ LastNonBlank(inlFrame.lines, call.extracted_start_line - 1, j)
               /\ HasCode(chars)
               /\ HasLineComment(chars))
              => inlFrame.result = << Trim(From(chars, CodeEnd(chars))) >>

\* the scan of `// x`, `code(); // c` and a blank line in front of the
\* target has left `// c` alone
C31_Witness ==
    /\ pc = "span"
    /\ call = ExTrailingCall
    /\ inlFrame.result = << <<"/", "/", " ", "c">> >>


-----------------------------------------------------------------------------
(* C32 *)

\* main is running or has stopped
InMain == pc \in {"records", "switch", "file", "locate", "end", "returned", "panic"}

\* every result of the batch carries the crate name
AllOfCrate(batch, crate) == \A k \in 1 .. Len(batch) : batch[k].crate_name = crate

\* C32: all through the record loop the results of the batch carry one crate
\* name, that of the variable crate_name, and every batch written went to
\* the file result-<crate_name>.json of the crate name its results carry.
C32_OneCratePerBatch ==
    InMain =>
        /\ AllOfCrate(run.results, run.crate_name)
        /\ \A k \in 1 .. Len(run.written) :
               AllOfCrate(run.written[k].json, run.written[k].crate)

\* a batch of crate c has been written at the switch to crate a_b, whose
\* first result is in the batch under the name a-b
C32_Witness ==
    /\ pc = "records"
    /\ Len(run.written) = 1
    /\ run.written[1].crate = <<"c">>
    /\ run.written[1].json # <<>>
    /\ run.crate_name = <<"a", "-", "b">>
    /\ Len(run.results) = 1


-----------------------------------------------------------------------------
(* C33 *)

\* the archive of the record's crate is in the cache and holds the record's
\* file
InArchive(record) ==
    /\ TargetCrate(record.crate) \in CrateArchives
    /\ record.rel_file \in ArchiveFiles

\* C33: when the crate of the record is the current crate, so that no switch
\* is made, the directory crate_root is unpacked on disk; and the file of a
\* record whose archive is in the cache and holds the file is found, in
\* every order of the records, also behind a record of a crate that was not
\* found.
C33_DirectoryStillThere ==
    /\ (pc = "switch" /\ run.record.crate = run.crate_name)
           => run.crate_root \in run.unpacked
    /\ (pc = "file" /\ InArchive(run.record)) => FileExists(run)


-----------------------------------------------------------------------------
(* C34 *)

\* C34: in a run that reaches its end every crate directory unpacked on the
\* way has been removed, the directory of a crate all of whose records failed
\* included.
C34_AllRemoved == pc = "end" => run.unpacked = {}


-----------------------------------------------------------------------------
(* C35 *)

\* what a record that is passed over must leave alone: the batch, the two
\* failure files, the result files, the two counters, the current crate, its
\* directory and the directories on disk
Untouched(r) ==
    <<r.results, r.pushed, r.reasons, r.failed, r.written,
      r.failed_extract_record_count, r.all_extracted_function_num,
      r.crate_name, r.crate_root, r.unpacked>>

\* the step in which main reads a record and stops on it
StopsOnRecord ==
    /\ pc = "records" /\ pc' = "panic"
    /\ run'.record # Idle
    /\ run'.record # run.record

\* C35: a record of 13 fields whose safety field is not Safe is passed over:
\* the loop goes on to the next record, and the batch, the failure files, the
\* result files, the failure counter, the counter of extracted functions,
\* crate_name, crate_root and the unpacked directories stay as they were,
\* whatever crate the record names.
C35_SkippedWithoutEffect ==
    [][ /\ (pc = "records" /\ pc' = "records")
               => Untouched(run') = Untouched(run)
        /\ StopsOnRecord => run'.record.safety = "Safe" ]_vars

\* the part of C35 on the records that are passed over
C35_FrameOfSkip ==
    [][ (pc = "records" /\ pc' = "records")
            => Untouched(run') = Untouched(run) ]_vars

=============================================================================
